---- MODULE Spec2Model ----
(***************************************************************************)
(* A model of the Qt5Core pretty printers (core.py) and of the type        *)
(* registries they consult (typeinfo.py).                                   *)
(*                                                                          *)
(* One behaviour decodes one inferior value: Init chooses the value (val), *)
(* the printer's children() builds a child iterator (iter), every request  *)
(* for the next child is one step that appends the yielded child to out,   *)
(* and to_string() stores the rendered text in text.  Text is a sequence   *)
(* of tokens: fixed words are one token, formatted numbers one token per   *)
(* character.                                                               *)
(***************************************************************************)
EXTENDS Integers, Sequences, FiniteSets, TLC

VARIABLES reg, val, iter, out, text, res, ended

vars == <<reg, val, iter, out, text, res, ended>>

(***************************************************************************)
(* Bounds of the model.                                                     *)
(***************************************************************************)
MaxNodes == 4
MaxBuckets == 3
MaxListNodes == 2
MaxSize == 3
MaxAfterEnd == 2
MaxRegistrations == 1

(***************************************************************************)
(* Python and gdb values.                                                   *)
(***************************************************************************)
NULL == 0
None == -1

NoIter == [cls |-> "none"]
NoText == <<"<not rendered>">>

Last(s) == s[Len(s)]
Front(s) == SubSeq(s, 1, Len(s) - 1)

(***************************************************************************)
(* QMapPrinter: a red-black tree hung under header.left.  Nodes are the    *)
(* addresses 1..n, the header is one more address; left and right map an   *)
(* address to the child's address or to NULL.                               *)
(***************************************************************************)
MapHeader == MaxNodes + 1

\* Every binary tree shape on the addresses lo..hi, numbered in pre-order:
\* the root is lo, its left subtree takes the next k addresses, its right
\* subtree the rest.  l and r are the nodes' left and right links.
EmptyLinks == [a \in {} |-> NULL]

RECURSIVE Trees(_, _)
Trees(lo, hi) ==
    IF lo > hi
    THEN {[root |-> NULL, l |-> EmptyLinks, r |-> EmptyLinks]}
    ELSE UNION { { [root |-> lo,
                    l |-> (lo :> tl.root) @@ tl.l @@ tr.l,
                    r |-> (lo :> tr.root) @@ tl.r @@ tr.r] :
                      tl \in Trees(lo + 1, lo + k), tr \in Trees(lo + k + 1, hi) } :
                 k \in 0..(hi - lo) }

\* A QMap value: d.size (the trusted element count) and d.header, whose left
\* link holds the tree and whose right link is null.
QMapValues ==
    UNION { { [printer |-> "QMap", size |-> sz, n |-> n,
               left  |-> (MapHeader :> t.root) @@ t.l,
               right |-> (MapHeader :> NULL) @@ t.r] :
                 sz \in 0..MaxNodes, t \in Trees(1, n) } : n \in 0..MaxNodes }

\* QMapPrinter.Iter.__init__
QMapIter_init(root) ==
    [cls |-> "QMapIter", root |-> root, current |-> None, next_is_key |-> TRUE,
     i |-> -1, path |-> <<>>, current_typed |-> None]

\* while self.current['left']: self.path.append(self.current);
\*                             self.current = self.current['left']
RECURSIVE DescendLeft(_, _, _)
DescendLeft(v, cur, path) ==
    IF v.left[cur] # NULL
    THEN DescendLeft(v, v.left[cur], Append(path, cur))
    ELSE [current |-> cur, path |-> path]

\* A loop that returns the parent at the first pop, whether or not the node
\* left behind was its right child.
PopWhileRight_once(v, cur, last, path) ==
    [raised |-> FALSE, current |-> cur, path |-> path]

\* while self.current['right'] == last: last = self.current;
\*                                      self.current = self.path.pop()
\* path.pop() on an empty list raises IndexError and leaves self.current.
RECURSIVE PopWhileRight(_, _, _, _)
PopWhileRight(v, cur, last, path) ==
    IF v.right[cur] = last
    THEN IF path = <<>>
         THEN [raised |-> TRUE, current |-> cur, path |-> path]
         ELSE PopWhileRight(v, Last(path), cur, Front(path))
    ELSE [raised |-> FALSE, current |-> cur, path |-> path]

\* QMapPrinter.Iter.moveToNextNode: ret is "True", "False" or "IndexError".
moveToNextNode(v, it) ==
    IF it.current = None
    THEN IF v.left[it.root] = NULL
         THEN [it |-> it, ret |-> "False"]
         ELSE LET d == DescendLeft(v, it.root, it.path)
              IN [it |-> [it EXCEPT !.current = d.current, !.path = d.path],
                  ret |-> "True"]
    ELSE IF v.right[it.current] # NULL
    THEN LET d == DescendLeft(v, v.right[it.current], Append(it.path, it.current))
         IN [it |-> [it EXCEPT !.current = d.current, !.path = d.path],
             ret |-> "True"]
    ELSE IF it.path = <<>>
    THEN [it |-> it, ret |-> "IndexError"]
    ELSE LET p == PopWhileRight(v, Last(it.path), it.current, Front(it.path))
             it2 == [it EXCEPT !.current = p.current, !.path = p.path]
         IN IF p.raised THEN [it |-> it2, ret |-> "IndexError"]
            ELSE IF Len(p.path) = 0 THEN [it |-> it2, ret |-> "False"]
            ELSE [it |-> it2, ret |-> "True"]

\* A yielded child: (label + str(i), node[field]).
Item(label, i, node, field) ==
    [label |-> label, i |-> i, node |-> node, field |-> field]
NoItem == [label |-> "none"]

\* QMapPrinter.Iter.__next__
QMapIter_next(v, it) ==
    IF it.next_is_key
    THEN LET m == moveToNextNode(v, it)
         IN IF m.ret = "IndexError"
            THEN [it |-> m.it, res |-> "IndexError", item |-> NoItem]
            ELSE IF m.ret = "False"
            THEN [it |-> m.it, res |-> "StopIteration", item |-> NoItem]
            ELSE [it |-> [m.it EXCEPT !.current_typed = m.it.current,
                                      !.next_is_key = FALSE,
                                      !.i = m.it.i + 1],
                  res |-> "item",
                  item |-> Item("key", m.it.i + 1, m.it.current, "key")]
    ELSE [it |-> [it EXCEPT !.next_is_key = TRUE],
          res |-> "item",
          item |-> Item("value", it.i, it.current_typed, "value")]

\* QMapPrinter.children
QMapPrinter_children(v) ==
    IF v.size = 0 THEN [cls |-> "list"] ELSE QMapIter_init(MapHeader)

(***************************************************************************)
(* QHashPrinter: numBuckets bucket slots, each the head of a chain of      *)
(* nodes that ends in the dummy node e, whose next is null; an empty       *)
(* bucket points at e.  size is the trusted element count of the header.   *)
(***************************************************************************)
MaxChain == 2
HashDummy == MaxBuckets * MaxChain + 1

RECURSIVE SumTo(_, _)
SumTo(cnt, b) == IF b = 0 THEN 0 ELSE cnt[b] + SumTo(cnt, b - 1)

\* The table whose bucket b holds a chain of cnt[b] nodes; addresses are
\* handed out bucket by bucket.
HashTable(printer, sz, nb, cnt) ==
    LET total == SumTo(cnt, nb)
        first(b) == SumTo(cnt, b - 1) + 1
        last(b)  == SumTo(cnt, b)
        lasts == {last(b) : b \in 1..nb}
    IN [printer |-> printer, size |-> sz, numBuckets |-> nb, n |-> total,
        buckets |-> [b \in 1..nb |-> IF cnt[b] = 0 THEN HashDummy ELSE first(b)],
        next |-> [a \in (1..total) \cup {HashDummy} |->
                     IF a = HashDummy THEN NULL
                     ELSE IF a \in lasts THEN HashDummy ELSE a + 1]]

HashValues(printer) ==
    UNION { { HashTable(printer, sz, nb, cnt) :
                sz \in 0..MaxSize, cnt \in [1..nb -> 0..MaxChain] } :
            nb \in 0..MaxBuckets }

QHashValues == HashValues("QHash")

\* bool(x) of a Python None or a gdb pointer value
Truthy(p) == p # None /\ p # NULL

\* The iterator set up at the first slot of the bucket array.
QHashIter_init_first(d) ==
    [cls |-> "QHashIter", buckets_left |-> d.numBuckets, current_bucket |-> 1,
     current_node |-> None, i |-> -1, waiting_for_value |-> FALSE]

\* QHashPrinter.Iter.__init__: current_bucket is d['buckets'] - 1, the slot
\* before the first one (slots are numbered from 1).
QHashIter_init(d) ==
    [cls |-> "QHashIter", buckets_left |-> d.numBuckets, current_bucket |-> 0,
     current_node |-> None, i |-> -1, waiting_for_value |-> FALSE]

\* while self.buckets_left: ... else: raise StopIteration
\* A slot outside the bucket array is not readable.
RECURSIVE NextBucket(_, _, _, _)
NextBucket(v, left, bucket, node) ==
    IF left = 0
    THEN [res |-> "StopIteration", left |-> left, bucket |-> bucket, node |-> node]
    ELSE IF (bucket + 1) \notin DOMAIN v.buckets
    THEN [res |-> "MemoryError", left |-> left - 1, bucket |-> bucket + 1, node |-> node]
    ELSE IF v.next[v.buckets[bucket + 1]] # NULL
    THEN [res |-> "break", left |-> left - 1, bucket |-> bucket + 1,
          node |-> v.buckets[bucket + 1]]
    ELSE NextBucket(v, left - 1, bucket + 1, v.buckets[bucket + 1])

\* QHashPrinter.Iter.__next__
QHashIter_next(v, it) ==
    IF it.waiting_for_value
    THEN [it |-> [it EXCEPT !.waiting_for_value = FALSE],
          res |-> "item",
          item |-> Item("value", it.i, it.current_node, "value")]
    ELSE LET n1 == IF Truthy(it.current_node) THEN v.next[it.current_node]
                   ELSE it.current_node
             key(t) == [it |-> [t EXCEPT !.i = it.i + 1, !.waiting_for_value = TRUE],
                        res |-> "item",
                        item |-> Item("key", it.i + 1, t.current_node, "key")]
         IN IF ~Truthy(n1) \/ v.next[n1] = NULL
            THEN LET s == NextBucket(v, it.buckets_left, it.current_bucket, n1)
                     t == [it EXCEPT !.buckets_left = s.left,
                                     !.current_bucket = s.bucket,
                                     !.current_node = s.node]
                 IN IF s.res = "break" THEN key(t)
                    ELSE [it |-> t, res |-> s.res, item |-> NoItem]
            ELSE key([it EXCEPT !.current_node = n1])

\* QHashPrinter.children
QHashPrinter_children(v) ==
    IF v.size = 0 THEN [cls |-> "list"] ELSE QHashIter_init(v)

(***************************************************************************)
(* QSetPrinter: itertools.islice(hashPrinter.children(), 0, None, 2) over  *)
(* the backing hash table q_hash.                                           *)
(***************************************************************************)
QSetValues == HashValues("QSet")

\* next() of what QHashPrinter.children returns: a list iterator or an Iter
HashChildNext(v, it) ==
    IF it.cls = "list"
    THEN [it |-> it, res |-> "StopIteration", item |-> NoItem]
    ELSE QHashIter_next(v, it)

\* islice(it, start, None, step)
islice(it, start, step) ==
    [cls |-> "islice", it |-> it, next |-> start, step |-> step, cnt |-> 0]

\* islice.__next__: drop items until cnt reaches next, return the one after,
\* add step to next.  When the inner iterator ends, islice releases it.
RECURSIVE islice_next(_, _)
islice_next(v, s) ==
    IF s.it = NoIter
    THEN [it |-> s, res |-> "StopIteration", item |-> NoItem]
    ELSE LET r == HashChildNext(v, s.it)
         IN IF r.res = "StopIteration"
            THEN [it |-> [s EXCEPT !.it = NoIter], res |-> r.res, item |-> NoItem]
            ELSE IF r.res # "item"
            THEN [it |-> [s EXCEPT !.it = r.it], res |-> r.res, item |-> NoItem]
            ELSE IF s.cnt < s.next
            THEN islice_next(v, [s EXCEPT !.it = r.it, !.cnt = s.cnt + 1])
            ELSE [it |-> [s EXCEPT !.it = r.it, !.cnt = s.cnt + 1,
                                   !.next = s.next + s.step],
                  res |-> "item", item |-> r.item]

\* A slice that takes every item (step 1).
QSetPrinter_children_all(v) == islice(QHashPrinter_children(v), 0, 1)

\* QSetPrinter.children
QSetPrinter_children(v) == islice(QHashPrinter_children(v), 0, 2)

(***************************************************************************)
(* QLinkedListPrinter: the sentinel e and the nodes, linked by n.  Any     *)
(* address may link to any address or to null, so a chain may be cyclic or *)
(* shorter or longer than the trusted size.                                 *)
(***************************************************************************)
ListSentinel == MaxListNodes + 1

QLinkedListValues ==
    { [printer |-> "QLinkedList", size |-> sz, n |-> link] :
        sz \in 0..MaxSize,
        link \in [1..ListSentinel -> 0..ListSentinel] }

\* QLinkedListPrinter.Iter.__init__
QLinkedListIter_init(tail, size) ==
    [cls |-> "QLinkedListIter", current |-> tail, i |-> -1, size |-> size]

\* The same with the end test one item late (self.i >= self.size).
QLinkedListIter_next_late(v, it) ==
    IF it.i >= it.size
    THEN [it |-> it, res |-> "StopIteration", item |-> NoItem]
    ELSE IF it.current = NULL
    THEN [it |-> [it EXCEPT !.i = it.i + 1], res |-> "MemoryError", item |-> NoItem]
    ELSE LET t == [it EXCEPT !.i = it.i + 1, !.current = v.n[it.current]]
         IN IF t.current = NULL
            THEN [it |-> t, res |-> "MemoryError", item |-> NoItem]
            ELSE [it |-> t, res |-> "item", item |-> Item("", t.i, t.current, "t")]

\* QLinkedListPrinter.Iter.__next__: reading a field through a null pointer
\* is a memory error of the debugger.
QLinkedListIter_next(v, it) ==
    IF it.i + 1 >= it.size
    THEN [it |-> it, res |-> "StopIteration", item |-> NoItem]
    ELSE IF it.current = NULL
    THEN [it |-> [it EXCEPT !.i = it.i + 1], res |-> "MemoryError", item |-> NoItem]
    ELSE LET t == [it EXCEPT !.i = it.i + 1, !.current = v.n[it.current]]
         IN IF t.current = NULL
            THEN [it |-> t, res |-> "MemoryError", item |-> NoItem]
            ELSE [it |-> t, res |-> "item", item |-> Item("", t.i, t.current, "t")]

\* QLinkedListPrinter.children
QLinkedListPrinter_children(v) ==
    IF v.size = 0 THEN [cls |-> "list"] ELSE QLinkedListIter_init(ListSentinel, v.size)

(***************************************************************************)
(* typeinfo: the registries and the three classification tests.  A type    *)
(* name is a sequence of tokens, "<" and ">" being tokens of their own;    *)
(* a gdb type without a name (a pointer, an anonymous struct) has the name *)
(* NoName, Python's None.                                                   *)
(***************************************************************************)
NoName == <<>>

\* The registries as typeinfo.py fills them (the entries of the source that
\* name a type of ElTypes below, and two more of each non-empty set).
DefaultRegistries ==
    [primitive_types     |-> {<<"QUuid">>, <<"QFlag">>, <<"QStringRef">>},
     primitive_tpl_types |-> {<<"QFlags">>},
     movable_types       |-> {<<"QChar">>, <<"QString">>, <<"QVariant">>, <<"QDate">>},
     movable_tpl_types   |-> {<<"QList">>, <<"QVector">>, <<"QSharedPointer">>},
     static_types        |-> {},
     static_tpl_types    |-> {}]

RegistryNames == DOMAIN DefaultRegistries

\* str.find: the 0-based index of the first tok in name, -1 when absent
RECURSIVE FindFrom(_, _, _)
FindFrom(name, tok, k) ==
    IF k > Len(name) THEN -1
    ELSE IF name[k] = tok THEN k - 1
    ELSE FindFrom(name, tok, k + 1)

find(name, tok) == FindFrom(name, tok, 1)

\* name[0:pos]
Slice0(name, pos) == SubSeq(name, 1, pos)

\* pos = name.find('<'); name[0:pos] in tpl if pos > 0 else name in exact
InRegistry(name, exact, tpl) ==
    LET pos == find(name, "<")
    IN IF pos > 0 THEN Slice0(name, pos) \in tpl ELSE name \in exact

PrimitiveCodes ==
    {"TYPE_CODE_PTR", "TYPE_CODE_INT", "TYPE_CODE_FLT", "TYPE_CODE_CHAR", "TYPE_CODE_BOOL"}

\* Each test returns [exc, ret]: the exception raised ("" for none) and the
\* value returned.
Returns(b) == [exc |-> "", ret |-> b]
Raises(e) == [exc |-> e, ret |-> FALSE]

\* typeinfo.type_is_known_primitive: typ.name.find on None is an
\* AttributeError.
type_is_known_primitive(r, typ) ==
    IF typ.code \in PrimitiveCodes THEN Returns(TRUE)
    ELSE IF typ.name = NoName THEN Raises("AttributeError")
    ELSE Returns(InRegistry(typ.name, r.primitive_types, r.primitive_tpl_types))

\* typeinfo.type_is_known_movable
type_is_known_movable(r, typ) ==
    IF typ.name = NoName THEN Returns(FALSE)
    ELSE Returns(InRegistry(typ.name, r.movable_types, r.movable_tpl_types))

\* typeinfo.type_is_known_static
type_is_known_static(r, typ) ==
    IF typ.name = NoName THEN Returns(FALSE)
    ELSE Returns(InRegistry(typ.name, r.static_types, r.static_tpl_types))

(***************************************************************************)
(* QListPrinter.  The value gives the list's type (its name and first      *)
(* template argument), the size of a pointer of the inferior, and the      *)
(* begin and end counters into the node array.                              *)
(***************************************************************************)
MaxQListLen == 1

Type(name, code, sizeof) == [name |-> name, code |-> code, sizeof |-> sizeof]

\* How gdb writes a type inside the name of a template instance.
TypeText(t) ==
    IF t.name # NoName THEN t.name
    ELSE IF t.code = "TYPE_CODE_PTR" THEN <<"void", "*">>
    ELSE <<"(anonymous struct)">>

\* gdb.lookup_type('QString')
QStringType(ptrSize) == Type(<<"QString">>, "TYPE_CODE_STRUCT", ptrSize)

\* Element types of an inferior whose pointers have ptrSize bytes.
ElTypes(ptrSize) ==
    { Type(<<"int">>, "TYPE_CODE_INT", 4),
      Type(<<"char">>, "TYPE_CODE_CHAR", 1),
      Type(<<"bool">>, "TYPE_CODE_BOOL", 1),
      Type(<<"double">>, "TYPE_CODE_FLT", 8),
      Type(<<"long double">>, "TYPE_CODE_FLT", 16),
      Type(NoName, "TYPE_CODE_PTR", ptrSize),
      Type(<<"QChar">>, "TYPE_CODE_STRUCT", 2),
      Type(<<"QUuid">>, "TYPE_CODE_STRUCT", 16),
      Type(<<"QVariant">>, "TYPE_CODE_STRUCT", 16),
      QStringType(ptrSize),
      Type(<<"QFlags", "<", "MyEnum", ">">>, "TYPE_CODE_STRUCT", 4),
      Type(<<"QList", "<", "int", ">">>, "TYPE_CODE_STRUCT", ptrSize),
      Type(<<"MyEnum">>, "TYPE_CODE_ENUM", 4),
      Type(<<"<", "unnamed", ">">>, "TYPE_CODE_STRUCT", 4) }
    \cup { Type(n, "TYPE_CODE_STRUCT", sz) :
             n \in {<<"MyType">>, <<"MyTemplate", "<", "int", ">">>, NoName},
             sz \in {4, 8, 16} }

PtrSizes == {4, 8}

QListValues ==
    UNION { { [printer |-> "QList", ptrSize |-> ps, begin |-> b, end |-> b + len,
               type |-> [name |-> <<"QList", "<">> \o TypeText(el) \o <<">">>,
                         template_argument |-> el]] :
                 el \in ElTypes(ps), b \in {0, 1}, len \in 0..MaxQListLen }
            \cup
            { [printer |-> "QList", ptrSize |-> ps, begin |-> b, end |-> b + len,
               type |-> [name |-> <<"QStringList">>,
                         template_argument |-> Type(NoName, "none", 0)]] :
                 b \in {0, 1}, len \in 0..MaxQListLen } : ps \in PtrSizes }

\* An iterator whose constructor raised: the exception and its message.
Raised(exc, msg) == [cls |-> "raised", exc |-> exc, msg |-> msg]

\* QListPrinter.Iter.__init__, the decision of lines 492-502 with the
\* primitive test given as a parameter.
QListIter_decide(r, el_type, ptrSize, primitive) ==
    LET static == type_is_known_static(r, el_type)
        movable == type_is_known_movable(r, el_type)
    IN IF el_type.sizeof > ptrSize \/ static.ret
       THEN [exc |-> "", is_pointer |-> TRUE]
       ELSE IF movable.ret THEN [exc |-> "", is_pointer |-> FALSE]
       ELSE IF primitive.exc # "" THEN [exc |-> primitive.exc, is_pointer |-> FALSE]
       ELSE IF primitive.ret THEN [exc |-> "", is_pointer |-> FALSE]
       ELSE [exc |-> "ValueError", is_pointer |-> FALSE]

\* The size test with >= in place of >.
QListIter_is_pointer_ge(r, el_type, ptrSize) ==
    IF el_type.sizeof >= ptrSize
    THEN [exc |-> "", is_pointer |-> TRUE]
    ELSE QListIter_decide(r, el_type, ptrSize, type_is_known_primitive(r, el_type))

\* QListPrinter.Iter.__init__, lines 492-502
QListIter_is_pointer(r, el_type, ptrSize) ==
    QListIter_decide(r, el_type, ptrSize, type_is_known_primitive(r, el_type))

\* self.el_type of QListPrinter.Iter.__init__
QListIter_el_type(v) ==
    IF v.type.name = <<"QStringList">>
    THEN QStringType(v.ptrSize)
    ELSE v.type.template_argument

\* QListPrinter.Iter.__init__
QListIter_init(r, v) ==
    LET el_type == QListIter_el_type(v)
        d == QListIter_is_pointer(r, el_type, v.ptrSize)
    IN IF d.exc = "ValueError"
       THEN Raised("ValueError",
                   <<"Could not determine whether QList stores ">> \o el_type.name
                   \o <<" directly or as a pointer: to fix this, add it to one of the variables in the qt5printers.typeinfo module">>)
       ELSE IF d.exc # ""
       THEN Raised(d.exc, <<"'NoneType' object has no attribute 'find'">>)
       ELSE [cls |-> "QListIter", begin |-> v.begin, end |-> v.end, offset |-> 0,
             el_type |-> el_type, is_pointer |-> d.is_pointer]

\* QListPrinter.Iter.__next__
QListIter_next(v, it) ==
    IF it.begin + it.offset >= it.end
    THEN [it |-> it, res |-> "StopIteration", item |-> NoItem]
    ELSE [it |-> [it EXCEPT !.offset = it.offset + 1],
          res |-> "item",
          item |-> Item("", it.offset + 1, it.begin + it.offset,
                        IF it.is_pointer THEN "v" ELSE "node")]

\* QListPrinter.children
QListPrinter_children(r, v) ==
    IF v.begin = v.end THEN [cls |-> "list"] ELSE QListIter_init(r, v)

(***************************************************************************)
(* Python integers are unbounded, and a day-count is a qint64.  An integer *)
(* n that may pass 2^31 is kept as <<hi, lo>> with n = hi * Base + lo and  *)
(* 0 <= lo < Base; // is the floor division of Python.                      *)
(***************************************************************************)
Base == 10000

BigNorm(hi, lo) == <<hi + (lo \div Base), lo % Base>>
BigOf(n) == BigNorm(0, n)
\* the decimal number written a bbbb cccc (four digits to a group)
Dec3(a, b, c) == <<a * Base + b, c>>
BigNeg(x) == BigNorm(0 - x[1], 0 - x[2])
BigAdd(x, y) == BigNorm(x[1] + y[1], x[2] + y[2])
BigSub(x, y) == BigNorm(x[1] - y[1], x[2] - y[2])
\* x * k for a small k >= 0
BigMul(x, k) == BigNorm(x[1] * k, x[2] * k)
\* x // k for a small k > 0
BigDiv(x, k) == <<x[1] \div k, ((x[1] % k) * Base + x[2]) \div k>>
BigLeq(x, y) == x[1] < y[1] \/ (x[1] = y[1] /\ x[2] <= y[2])
BigInt(x) == x[1] * Base + x[2]

(***************************************************************************)
(* str.format: '{:0=w}' writes the sign, then zeros up to width w, then    *)
(* the digits.  A text is a sequence of tokens.                             *)
(***************************************************************************)
DigitTokens == <<"0", "1", "2", "3", "4", "5", "6", "7", "8", "9">>

RECURSIVE Digits(_)
Digits(n) ==
    IF n < 10 THEN <<DigitTokens[n + 1]>>
    ELSE Digits(n \div 10) \o <<DigitTokens[(n % 10) + 1]>>

RECURSIVE Zeros(_)
Zeros(k) == IF k <= 0 THEN <<>> ELSE <<"0">> \o Zeros(k - 1)

\* the digits of a big integer >= 0
BigDigits(x) ==
    IF x[1] = 0 THEN Digits(x[2])
    ELSE Digits(x[1]) \o Zeros(4 - Len(Digits(x[2]))) \o Digits(x[2])

\* '{:0=w}'.format(x) of a big integer
FormatBig(x, w) ==
    LET neg == x[1] < 0
        ds == BigDigits(IF neg THEN BigNeg(x) ELSE x)
        sign == IF neg THEN <<"-">> ELSE <<>>
    IN sign \o Zeros(w - Len(sign) - Len(ds)) \o ds

\* '{:0=w}'.format(n)
Format(n, w) == FormatBig(BigOf(n), w)

Invalid == <<"<invalid>">>

(***************************************************************************)
(* QDatePrinter and QTimePrinter.                                           *)
(***************************************************************************)
\* The same arithmetic with the century b computed without the + 3.
_format_jd_fields_no3(jd) ==
    LET a == BigAdd(jd, BigOf(32044))
        b == BigInt(BigDiv(BigMul(a, 4), 146097))
        c == BigInt(BigSub(a, BigDiv(BigMul(BigOf(b), 146097), 4)))
        d == (4 * c + 3) \div 1461
        e == c - ((1461 * d) \div 4)
        m == (5 * e + 2) \div 153
    IN [day   |-> e - ((153 * m + 2) \div 5) + 1,
        month |-> m + 3 - 12 * (m \div 10),
        year  |-> BigAdd(BigMul(BigOf(b), 100), BigOf(d - 4800 + (m \div 10)))]

\* The arithmetic of _format_jd: year (a big integer), month and day.
_format_jd_fields(jd) ==
    LET a == BigAdd(jd, BigOf(32044))
        b == BigInt(BigDiv(BigAdd(BigMul(a, 4), BigOf(3)), 146097))
        c == BigInt(BigSub(a, BigDiv(BigMul(BigOf(b), 146097), 4)))
        d == (4 * c + 3) \div 1461
        e == c - ((1461 * d) \div 4)
        m == (5 * e + 2) \div 153
    IN [day   |-> e - ((153 * m + 2) \div 5) + 1,
        month |-> m + 3 - 12 * (m \div 10),
        year  |-> BigAdd(BigMul(BigOf(b), 100), BigOf(d - 4800 + (m \div 10)))]

\* _format_jd
_format_jd(jd) ==
    LET f == _format_jd_fields(jd)
    IN FormatBig(f.year, 4) \o <<"-">> \o Format(f.month, 2) \o <<"-">> \o Format(f.day, 2)

JdMin == BigNeg(Dec3(7843, 5057, 4879))
JdMax == Dec3(7843, 5401, 7364)

\* The test with < and > in place of <= and >=.
_jd_is_valid_strict(jd) ==
    ~BigLeq(jd, JdMin) /\ ~BigLeq(JdMax, jd)

\* _jd_is_valid
_jd_is_valid(jd) == BigLeq(JdMin, jd) /\ BigLeq(jd, JdMax)

\* The minutes written without % 60.
_format_time_ms_mins(msecs) ==
    LET secs == msecs \div 1000
        mins == secs \div 60
        hours == mins \div 60
    IN Format(hours % 24, 2) \o <<":">> \o Format(mins, 2) \o <<":">>
       \o Format(secs % 60, 2) \o <<".">> \o Format(msecs % 1000, 3)

\* _format_time_ms
_format_time_ms(msecs) ==
    LET secs == msecs \div 1000
        mins == secs \div 60
        hours == mins \div 60
    IN Format(hours % 24, 2) \o <<":">> \o Format(mins % 60, 2) \o <<":">>
       \o Format(secs % 60, 2) \o <<".">> \o Format(msecs % 1000, 3)

\* _ms_is_valid
_ms_is_valid(msecs) == msecs >= 0 /\ msecs <= 86400000

\* QDatePrinter.to_string
QDatePrinter_to_string(v) ==
    IF ~_jd_is_valid(v.jd) THEN Invalid ELSE _format_jd(v.jd)

\* QTimePrinter.to_string
QTimePrinter_to_string(v) ==
    IF ~_ms_is_valid(v.mds) THEN Invalid ELSE _format_time_ms(v.mds)

(***************************************************************************)
(* QTimeZonePrinter and QDateTimePrinter.                                   *)
(***************************************************************************)
\* QTimeZonePrinter.to_string: '' without private data, else the zone's id
QTimeZonePrinter_to_string(tz) ==
    IF tz.d = NULL THEN <<>> ELSE tz.id

_unix_epoch_jd == 2440588
_ms_per_day == 86400000
_validDate == 4
_validTime == 8
_validDateTime == 16
_timeZoneCached == 32
_localTime == 0
_UTC == 1
_offsetFromUTC == 2
_timeZone == 3

\* status & mask, for a mask of one bit
BitAnd(status, mask) == IF (status \div mask) % 2 = 1 THEN mask ELSE 0

\* abs()
abs(n) == IF n < 0 THEN 0 - n ELSE n

\* QDateTimePrinter.to_string, lines 307-317: diffstr of a fixed offset
QDateTimePrinter_diffstr(offset) ==
    IF offset = 0 THEN <<>>
    ELSE LET hours == abs(offset \div 3600)
             mins == abs((offset % 3600) \div 60)
             secs == abs(offset % 60)
             sign == IF offset > 0 THEN "+" ELSE "-"
             diffstr == <<sign>> \o Format(hours, 2) \o <<":">> \o Format(mins, 2)
         IN IF secs > 0 THEN diffstr \o <<":">> \o Format(secs, 2) ELSE diffstr

\* The day and the time of day with the previous-day adjustment made for
\* every time before the epoch.
QDateTimePrinter_split_before_epoch(m_msecs) ==
    LET jd0 == _unix_epoch_jd + (m_msecs \div _ms_per_day)
        msecs0 == m_msecs % _ms_per_day
    IN [jd |-> IF m_msecs < 0 THEN jd0 - 1 ELSE jd0,
        msecs |-> IF m_msecs < 0 THEN msecs0 + _ms_per_day ELSE msecs0]

\* QDateTimePrinter.to_string, lines 292-300: the day-count and the
\* milliseconds of the day of m_msecs
QDateTimePrinter_split(m_msecs) ==
    LET jd0 == _unix_epoch_jd + (m_msecs \div _ms_per_day)
        msecs0 == m_msecs % _ms_per_day
    IN [jd |-> IF msecs0 < 0 THEN jd0 - 1 ELSE jd0,
        msecs |-> IF msecs0 < 0 THEN msecs0 + _ms_per_day ELSE msecs0]

\* QDateTimePrinter.to_string, lines 289-322: the text of a valid date-time
QDateTimePrinter_format(v, timeZoneStr) ==
    LET s == QDateTimePrinter_split(v.m_msecs)
        result == _format_jd(BigOf(s.jd)) \o <<" ">> \o _format_time_ms(s.msecs)
    IN IF v.spec = _localTime THEN result \o <<" ", "(", "Local", ")">>
       ELSE IF v.spec = _UTC THEN result \o <<" ", "(", "UTC", ")">>
       ELSE IF v.spec = _offsetFromUTC
       THEN result \o <<" ", "(", "UTC">> \o QDateTimePrinter_diffstr(v.m_offsetFromUtc)
                   \o <<")">>
       ELSE IF v.spec = _timeZone THEN result \o <<" ", "(">> \o timeZoneStr \o <<")">>
       ELSE result

\* The validity taken from the combined bit for every spec.
QDateTimePrinter_to_string_combined(v) ==
    IF v.d = NULL THEN Invalid
    ELSE LET timeZoneStr == IF v.spec = _timeZone
                            THEN QTimeZonePrinter_to_string(v.m_timeZone)
                            ELSE <<>>
         IN IF v.spec = _timeZone /\ timeZoneStr = <<>> THEN Invalid
            ELSE IF BitAnd(v.status, _validDateTime) = 0 THEN Invalid
            ELSE QDateTimePrinter_format(v, timeZoneStr)

\* QDateTimePrinter.to_string
QDateTimePrinter_to_string(v) ==
    IF v.d = NULL THEN Invalid
    ELSE LET timeZoneStr == IF v.spec = _timeZone
                            THEN QTimeZonePrinter_to_string(v.m_timeZone)
                            ELSE <<>>
         IN IF v.spec = _timeZone /\ timeZoneStr = <<>> THEN Invalid
            ELSE IF v.spec = _localTime
                    \/ (v.spec = _timeZone /\ BitAnd(v.status, _timeZoneCached) = 0)
            THEN IF BitAnd(v.status, _validDate) = 0 \/ BitAnd(v.status, _validTime) = 0
                 THEN Invalid
                 ELSE QDateTimePrinter_format(v, timeZoneStr)
            ELSE IF BitAnd(v.status, _validDateTime) = 0 THEN Invalid
            ELSE QDateTimePrinter_format(v, timeZoneStr)

TimeZones ==
    { [d |-> NULL, id |-> <<>>], [d |-> 1, id |-> <<>>], [d |-> 1, id |-> <<"Europe/Oslo">>] }

QDateTime(d, m_msecs, spec, offset, tz, status) ==
    [printer |-> "QDateTime", d |-> d, m_msecs |-> m_msecs, spec |-> spec,
     m_offsetFromUtc |-> offset, m_timeZone |-> tz, status |-> status]

\* Fixed offsets from UTC, in seconds, of either sign.
UtcOffsets ==
    { sgn * (h * 3600 + m * 60 + sec) :
        sgn \in {-1, 1}, h \in {0, 1, 2, 14}, m \in {0, 1, 30, 59}, sec \in {0, 1, 59} }

\* Every status word and spec with every kind of zone; every offset; a
\* range of times before and after the epoch; and the null private pointer.
QDateTimeValues ==
    { QDateTime(1, 0, spec, 0, tz, status) :
        spec \in 0..4, tz \in TimeZones, status \in 0..63 }
    \cup
    { QDateTime(1, 3661000, _offsetFromUTC, o, [d |-> NULL, id |-> <<>>],
                _validDate + _validTime + _validDateTime) : o \in UtcOffsets }
    \cup
    { QDateTime(1, m, _UTC, 0, [d |-> NULL, id |-> <<>>],
                _validDate + _validTime + _validDateTime) :
        m \in { k * _ms_per_day + r : k \in {-11, -2, -1, 0, 1, 2, 11},
                                      r \in {-1, 0, 1, 3661000, 86399999} } }
    \cup
    { QDateTime(NULL, 0, _localTime, 0, [d |-> NULL, id |-> <<>>], 0) }

\* The day-count of the proleptic Gregorian date year-month-day (year a big
\* integer, year 0 before year 1): the encoding _format_jd inverts.
BigMod(x, k) == BigInt(BigSub(x, BigMul(BigDiv(x, k), k)))

IsLeapYear(y) ==
    BigMod(y, 4) = 0 /\ (BigMod(y, 100) # 0 \/ BigMod(y, 400) = 0)

DaysInMonth(y, m) ==
    IF m = 2 THEN (IF IsLeapYear(y) THEN 29 ELSE 28)
    ELSE IF m \in {4, 6, 9, 11} THEN 30 ELSE 31

JulianDay(year, month, day) ==
    LET a == (14 - month) \div 12
        y == BigAdd(year, BigOf(4800 - a))
        m == month + 12 * a - 3
    IN BigAdd(BigSub(BigAdd(BigAdd(BigMul(y, 365), BigDiv(y, 4)), BigDiv(y, 400)),
                     BigDiv(y, 100)),
              BigOf(day + ((153 * m + 2) \div 5) - 32045))

NoDate == [year |-> <<0, 0>>, month |-> 0, day |-> 0]

DateYears ==
    { BigOf(y) : y \in {-4801, -4800, -4713, -401, -400, -100, -1, 0, 1, 4, 100, 400,
                        1582, 1900, 1970, 1999, 2000, 2024, 2100, 9999, 10000} }
    \cup { BigNeg(Dec3(21, 4748, 3647)), Dec3(21, 4748, 3647) }

Dates ==
    { t \in DateYears \X (1..12) \X (1..31) : t[3] <= DaysInMonth(t[1], t[2]) }

\* A QDate: jd, the day-count in the inferior's memory, and date, the date
\* the inferior built it from (NoDate for a day-count that was not built
\* from a date); the printer reads jd only.
QDateValues ==
    { [printer |-> "QDate", jd |-> JulianDay(t[1], t[2], t[3]),
       date |-> [year |-> t[1], month |-> t[2], day |-> t[3]]] : t \in Dates }
    \cup
    { [printer |-> "QDate", jd |-> BigAdd(j, BigOf(k)), date |-> NoDate] :
         j \in {JdMin, JdMax, BigOf(0), BigOf(2440588)}, k \in -2..2 }

\* A QTime: mds, a 32-bit int.
QTimeValues ==
    { [printer |-> "QTime", mds |-> h * 3600000 + m * 60000 + sec * 1000 + ms] :
         h \in {0, 1, 12, 23}, m \in {0, 1, 59}, sec \in {0, 1, 59}, ms \in {0, 1, 999} }
    \cup
    { [printer |-> "QTime", mds |-> x] :
         x \in {-2147483647, -86400000, -1, 86400000, 86400001, 2147483647} }

(***************************************************************************)
(* StructReader: a cursor over the bytes of a structure.                    *)
(***************************************************************************)
HexTokens == <<"0", "1", "2", "3", "4", "5", "6", "7", "8", "9",
               "a", "b", "c", "d", "e", "f">>

\* str() of a void pointer: 0x and the address in hexadecimal
RECURSIVE HexDigits(_)
HexDigits(n) ==
    IF n < 16 THEN <<HexTokens[n + 1]>>
    ELSE HexDigits(n \div 16) \o <<HexTokens[(n % 16) + 1]>>

PointerStr(addr) == <<"0x">> \o HexDigits(addr)

HexValue(c) == (CHOOSE k \in 1..16 : HexTokens[k] = c) - 1

\* int(s, 16) of a string that starts with 0x
RECURSIVE Int16Digits(_)
Int16Digits(ds) ==
    IF ds = <<>> THEN 0
    ELSE 16 * Int16Digits(SubSeq(ds, 1, Len(ds) - 1)) + HexValue(ds[Len(ds)])

Int16(s) == Int16Digits(Tail(s))

\* StructReader.__init__
StructReader(data) == [data |-> data]

\* StructReader.next_val: the address read and the reader afterwards
StructReader_next_val(reader, sizeof) ==
    [at |-> reader.data, reader |-> [data |-> reader.data + sizeof]]

\* The alignment with the padding added also to an aligned cursor.
StructReader_next_aligned_val_always(reader, sizeof, ptrSize) ==
    LET ptr_val == Int16(PointerStr(reader.data))
        misalignment == ptr_val % ptrSize
        data == reader.data + ptrSize - misalignment
    IN [at |-> data, reader |-> [data |-> data + sizeof]]

\* StructReader.next_aligned_val
StructReader_next_aligned_val(reader, sizeof, ptrSize) ==
    LET ptr_val == Int16(PointerStr(reader.data))
        misalignment == ptr_val % ptrSize
        data == IF misalignment > 0 THEN reader.data + ptrSize - misalignment
                ELSE reader.data
    IN [at |-> data, reader |-> [data |-> data + sizeof]]

(***************************************************************************)
(* QStringPrinter and QUrlPrinter.                                          *)
(***************************************************************************)
\* A QString: size characters of the buffer data are the text.
QString(chars) == [size |-> Len(chars), data |-> chars]

\* QStringPrinter.to_string
QStringPrinter_to_string(q) == SubSeq(q.data, 1, q.size)

\* The fields of QUrlPrivate in the order of the memory, with their sizes.
QUrlPrivateFields(ptrSize, f) ==
    << <<4, 1>>, <<4, f.port>>, <<ptrSize, f.scheme>>, <<ptrSize, f.userName>>,
       <<ptrSize, f.password>>, <<ptrSize, f.host>>, <<ptrSize, f.path>>,
       <<ptrSize, f.query>>, <<ptrSize, f.fragment>>, <<ptrSize, NULL>>,
       <<1, f.sections>>, <<1, f.flags>> >>

RECURSIVE OffsetOf(_, _)
OffsetOf(fields, k) == IF k = 1 THEN 0 ELSE OffsetOf(fields, k - 1) + fields[k - 1][1]

\* The memory at d: the value of the field at each address.
QUrlPrivateMemory(d, fields) ==
    [a \in {d + OffsetOf(fields, k) : k \in 1..Len(fields)} |->
        fields[CHOOSE k \in 1..Len(fields) : d + OffsetOf(fields, k) = a][2]]

UrlAddress == 4096

QUrl(d, ptrSize, f) ==
    [printer |-> "QUrl", d |-> d, ptrSize |-> ptrSize,
     mem |-> QUrlPrivateMemory(UrlAddress, QUrlPrivateFields(ptrSize, f))]

\* what to_string reads from the memory of QUrlPrivate, lines 865-880
QUrlPrinter_read(v) ==
    LET r0 == StructReader_next_val(StructReader(v.d), 4)
        r1 == StructReader_next_val(r0.reader, 4)
        r2 == StructReader_next_val(r1.reader, v.ptrSize)
        r3 == StructReader_next_val(r2.reader, v.ptrSize)
        r4 == StructReader_next_val(r3.reader, v.ptrSize)
        r5 == StructReader_next_val(r4.reader, v.ptrSize)
        r6 == StructReader_next_val(r5.reader, v.ptrSize)
        r7 == StructReader_next_val(r6.reader, v.ptrSize)
        r8 == StructReader_next_val(r7.reader, v.ptrSize)
        r9 == StructReader_next_val(r8.reader, v.ptrSize)
        r10 == StructReader_next_val(r9.reader, 1)
        r11 == StructReader_next_val(r10.reader, 1)
    IN [port |-> v.mem[r1.at], scheme |-> v.mem[r2.at], userName |-> v.mem[r3.at],
        password |-> v.mem[r4.at], host |-> v.mem[r5.at], path |-> v.mem[r6.at],
        query |-> v.mem[r7.at], fragment |-> v.mem[r8.at],
        sections |-> v.mem[r10.at], flags |-> v.mem[r11.at]]

\* flags & mask, sections & mask: true when a bit of the mask is set
Bits(x, mask) == \E b \in {1, 2, 4, 8, 16, 32, 64, 128} : BitAnd(mask, b) # 0 /\ BitAnd(x, b) # 0

Omitted == <<":<omitted>">>

\* The general path with the password written out.
QUrlPrinter_userinfo_plain(f) ==
    IF Bits(f.sections, 2) \/ Bits(f.sections, 4)
    THEN QStringPrinter_to_string(f.userName)
         \o (IF Bits(f.sections, 4)
             THEN <<":">> \o QStringPrinter_to_string(f.password) ELSE <<>>)
         \o <<"@">>
    ELSE <<>>

\* The user information without a test of the section bits.
QUrlPrinter_userinfo_ungated(f) ==
    QStringPrinter_to_string(f.userName) \o Omitted \o <<"@">>

\* QUrlPrinter.to_string, lines 896-902: user name and password marker
QUrlPrinter_userinfo(f) ==
    IF Bits(f.sections, 2) \/ Bits(f.sections, 4)
    THEN QStringPrinter_to_string(f.userName)
         \o (IF Bits(f.sections, 4) THEN Omitted ELSE <<>>)
         \o <<"@">>
    ELSE <<>>

\* QUrlPrinter.to_string
QUrlPrinter_to_string(v) ==
    IF v.d = NULL THEN <<"<empty>">>
    ELSE LET f == QUrlPrinter_read(v)
         IN IF Bits(f.flags, 1) /\ ~Bits(f.sections, 64) /\ ~Bits(f.sections, 128)
            THEN QStringPrinter_to_string(f.path)
            ELSE (IF Bits(f.sections, 1)
                  THEN QStringPrinter_to_string(f.scheme) \o <<":">> ELSE <<>>)
                 \o (IF Bits(f.sections, 2 + 4 + 8 + 16) \/ Bits(f.flags, 1)
                     THEN <<"//">> ELSE <<>>)
                 \o QUrlPrinter_userinfo(f)
                 \o (IF Bits(f.sections, 8)
                     THEN QStringPrinter_to_string(f.host) ELSE <<>>)
                 \o (IF f.port # -1 THEN <<":">> \o Format(f.port, 1) ELSE <<>>)
                 \o QStringPrinter_to_string(f.path)
                 \o (IF Bits(f.sections, 64)
                     THEN <<"?">> \o QStringPrinter_to_string(f.query) ELSE <<>>)
                 \o (IF Bits(f.sections, 128)
                     THEN <<"#">> \o QStringPrinter_to_string(f.fragment) ELSE <<>>)

\* The contents of the password field.
Passwords == {QString(<<>>), QString(<<"hunter2">>), QString(<<"s3cret">>)}

UrlFields(port, password, sections, flags) ==
    [port |-> port, scheme |-> QString(<<"http">>), userName |-> QString(<<"alice">>),
     password |-> password, host |-> QString(<<"example.org">>),
     path |-> QString(<<"/index">>), query |-> QString(<<"q=1">>),
     fragment |-> QString(<<"top">>), sections |-> sections, flags |-> flags]

QUrlValues ==
    { QUrl(d, ptrSize, UrlFields(port, password, sections, flags)) :
         d \in {UrlAddress}, ptrSize \in PtrSizes, port \in {-1, 8080},
         password \in Passwords, sections \in 0..255, flags \in {0, 1} }
    \cup
    { QUrl(NULL, 8, UrlFields(-1, QString(<<>>), 0, 0)) }

(***************************************************************************)
(* QVariantPrinter.                                                         *)
(***************************************************************************)
meta_type_unknown == 0
meta_type_user == 1024

\* typeinfo.meta_type_names, as <<id, name>> entries
meta_type_names_items ==
    << <<1, <<"bool">>>>, <<2, <<"int">>>>, <<3, <<"uint">>>>,
       <<4, <<"qlonglong">>>>, <<5, <<"qulonglong">>>>, <<6, <<"double">>>>,
       <<7, <<"QChar">>>>, <<8, <<"QVariantMap">>>>, <<9, <<"QVariantList">>>>,
       <<10, <<"QString">>>>, <<11, <<"QStringList">>>>, <<12, <<"QByteArray">>>>,
       <<13, <<"QBitArray">>>>, <<14, <<"QDate">>>>, <<15, <<"QTime">>>>,
       <<16, <<"QDateTime">>>>, <<17, <<"QUrl">>>>, <<18, <<"QLocale">>>>,
       <<19, <<"QRect">>>>, <<20, <<"QRectF">>>>, <<21, <<"QSize">>>>,
       <<22, <<"QSizeF">>>>, <<23, <<"QLine">>>>, <<24, <<"QLineF">>>>,
       <<25, <<"QPoint">>>>, <<26, <<"QPointF">>>>, <<27, <<"QRegExp">>>>,
       <<28, <<"QVariantHash">>>>, <<29, <<"QEasingCurve">>>>, <<30, <<"QUuid">>>>,
       <<31, <<"void", "*">>>>, <<32, <<"long">>>>, <<33, <<"short">>>>,
       <<34, <<"char">>>>, <<35, <<"ulong">>>>, <<36, <<"ushort">>>>,
       <<37, <<"uchar">>>>, <<38, <<"float">>>>, <<39, <<"QObject", "*">>>>,
       <<40, <<"signed char">>>>, <<41, <<"QVariant">>>>, <<42, <<"QModelIndex">>>>,
       <<43, <<"void">>>>, <<44, <<"QRegularExpression">>>>, <<45, <<"QJsonValue">>>>,
       <<46, <<"QJsonObject">>>>, <<47, <<"QJsonArray">>>>, <<48, <<"QJsonDocument">>>>,
       <<64, <<"QFont">>>>, <<65, <<"QPixmap">>>>, <<66, <<"QBrush">>>>,
       <<67, <<"QColor">>>>, <<68, <<"QPalette">>>>, <<69, <<"QIcon">>>>,
       <<70, <<"QImage">>>>, <<71, <<"QPolygon">>>>, <<72, <<"QRegion">>>>,
       <<73, <<"QBitmap">>>>, <<74, <<"QCursor">>>>, <<75, <<"QKeySequence">>>>,
       <<76, <<"QPen">>>>, <<77, <<"QTextLength">>>>, <<78, <<"QTextFormat">>>>,
       <<79, <<"QMatrix">>>>, <<80, <<"QTransform">>>>, <<81, <<"QMatrix4x4">>>>,
       <<82, <<"QVector2D">>>>, <<83, <<"QVector3D">>>>, <<84, <<"QVector4D">>>>,
       <<85, <<"QQuaternion">>>>, <<86, <<"QPolygonF">>>>, <<121, <<"QSizePolicy">>>> >>

\* typ in typeinfo.meta_type_names, tested by the range of the built-in ids
meta_type_names_has_below_user(typ) == typ < meta_type_user

\* typ in typeinfo.meta_type_names
meta_type_names_has(typ) ==
    \E k \in 1..Len(meta_type_names_items) : meta_type_names_items[k][1] = typ

\* typeinfo.meta_type_names[typ]: KeyError for an id that is not a key
meta_type_names(typ) ==
    IF \E k \in 1..Len(meta_type_names_items) : meta_type_names_items[k][1] = typ
    THEN meta_type_names_items[CHOOSE k \in 1..Len(meta_type_names_items) :
                                  meta_type_names_items[k][1] = typ][2]
    ELSE <<"KeyError">>

\* QVariantPrinter._varmap, as <<type name, field>> entries
_varmap_items ==
    << <<<<"char">>, "c">>, <<<<"uchar">>, "uc">>, <<<<"short">>, "s">>,
       <<<<"signed char">>, "sc">>, <<<<"ushort">>, "us">>, <<<<"int">>, "i">>,
       <<<<"uint">>, "u">>, <<<<"long">>, "l">>, <<<<"ulong">>, "ul">>,
       <<<<"bool">>, "b">>, <<<<"double">>, "d">>, <<<<"float">>, "f">>,
       <<<<"qreal">>, "real">>, <<<<"qlonglong">>, "ll">>, <<<<"qulonglong">>, "ull">>,
       <<<<"QObject", "*">>, "o">>, <<<<"void", "*">>, "ptr">> >>

_varmap_has(typename) == \E k \in 1..Len(_varmap_items) : _varmap_items[k][1] = typename

_varmap(typename) ==
    _varmap_items[CHOOSE k \in 1..Len(_varmap_items) : _varmap_items[k][1] = typename][2]

\* gdb.Type.tag: the name after struct, union or enum; None for other types
Type_tag(typ) ==
    IF typ.code \in {"TYPE_CODE_STRUCT", "TYPE_CODE_UNION", "TYPE_CODE_ENUM"}
    THEN typ.name ELSE NoName

\* gdb.error of gdb.lookup_type
GdbError == [name |-> <<"gdb.error">>, code |-> "none", sizeof |-> 0]

\* What to_string returns: the text, or the gdb.Value it picks out of the
\* variant, written as the expression that denotes it; and the names it
\* looked up as types.
VariantResult(t, looked) == [text |-> t, looked |-> looked]

\* QVariantPrinter.to_string, lines 767-789: the storage of a resolved type
QVariantPrinter_storage(r, v, gdb_type) ==
    LET movable == type_is_known_movable(r, gdb_type)
        primitive == type_is_known_primitive(r, gdb_type)
    IN IF gdb_type.sizeof > v.dataSize
       THEN <<"*", "(">> \o TypeText(gdb_type) \o <<"*", ")", "data.shared.ptr">>
       ELSE IF movable.ret
       THEN <<"*", "(">> \o TypeText(gdb_type) \o <<"*", ")", "&", "data.c">>
       ELSE IF primitive.exc # ""
       THEN <<primitive.exc>>
       ELSE IF primitive.ret
       THEN <<"*", "(">> \o TypeText(gdb_type) \o <<"*", ")", "&", "data.c">>
       ELSE IF Type_tag(gdb_type) = <<"enum">>
       THEN <<"*", "(">> \o TypeText(gdb_type) \o <<"*", ")", "&", "data.c">>
       ELSE <<"(">> \o TypeText(gdb_type) \o <<")", "data.o">>

\* QVariantPrinter.to_string; v.lookup is what gdb.lookup_type finds for the
\* name of the variant's type
QVariantPrinter_to_string(r, v) ==
    IF v.d_type = meta_type_unknown THEN VariantResult(<<"<invalid type>">>, <<>>)
    ELSE IF meta_type_names_has(v.d_type)
    THEN LET typename == meta_type_names(v.d_type)
         IN IF typename = <<"KeyError">> THEN VariantResult(typename, <<>>)
            ELSE IF _varmap_has(typename)
            THEN VariantResult(<<"data", ".", _varmap(typename)>>, <<>>)
            ELSE LET base == IF Last(typename) = "*" THEN Front(typename) ELSE typename
                     gdb_type == IF Last(typename) = "*"
                                 THEN Type(NoName, "TYPE_CODE_PTR", v.ptrSize)
                                 ELSE v.lookup
                 IN IF v.lookup = GdbError
                    THEN VariantResult(<<"data">>, <<base>>)
                    ELSE VariantResult(QVariantPrinter_storage(r, v, gdb_type), <<base>>)
    ELSE VariantResult(<<"data">>, <<>>)

\* The type ids of the variants: d.type is an unsigned field of 30 bits.
VariantTags ==
    {0, 1, 2, 6, 7, 10, 17, 30, 31, 39, 41, 43, 48, 49, 63, 64, 86, 87, 120, 121, 122,
     1023, 1024, 1025, 1073741823}

\* What gdb.lookup_type may find in an inferior for a type name: nothing, or
\* a type of that name.
VariantLookups(typename) ==
    IF typename = <<"void">> THEN {Type(typename, "TYPE_CODE_VOID", 1)}
    ELSE {GdbError} \cup
         { Type(typename, code, sizeof) :
              code \in {"TYPE_CODE_STRUCT", "TYPE_CODE_ENUM", "TYPE_CODE_TYPEDEF"},
              sizeof \in {1, 4, 8, 16} }

\* A QVariant: d.type, the size of d.data (a union of 8 bytes), and what the
\* inferior's debug information holds for the name of the type.
QVariant(type, lookup) ==
    [printer |-> "QVariant", d_type |-> type, dataSize |-> 8, ptrSize |-> 8,
     lookup |-> lookup]

QVariantValues ==
    { QVariant(t, GdbError) : t \in VariantTags }
    \cup
    UNION { { QVariant(t, l) : l \in VariantLookups(meta_type_names(t)) } :
            t \in {u \in VariantTags : meta_type_names_has(u) /\ ~_varmap_has(meta_type_names(u))} }

(***************************************************************************)
(* ArrayIter and the printers of contiguous buffers: QVarLengthArray,       *)
(* QVector, QByteArray and QString.                                         *)
(***************************************************************************)
MaxArrayLen == 2

\* to_string returning None: the printer gives no text
PyNone == <<"None">>

Empty == <<"<empty>">>

\* ArrayIter.__init__
ArrayIter_init(array, size) == [cls |-> "ArrayIter", array |-> array, i |-> -1, size |-> size]

\* ArrayIter.__next__
ArrayIter_next(it) ==
    IF it.i + 1 >= it.size
    THEN [it |-> it, res |-> "StopIteration", item |-> NoItem]
    ELSE [it |-> [it EXCEPT !.i = it.i + 1],
          res |-> "item",
          item |-> Item("[]", it.i + 1, it.i + 1, it.array[it.i + 2])]

\* The buffers: capacity MaxArrayLen, of which the first elements are used.
Buffers == [1..MaxArrayLen -> {"a", "b"}]

\* QVarLengthArrayPrinter.children
QVarLengthArrayPrinter_children(v) ==
    IF v.s = 0 THEN [cls |-> "list"] ELSE ArrayIter_init(v.ptr, v.s)

\* The text given for every size.
QVarLengthArrayPrinter_to_string_always(v) == Empty

\* QVarLengthArrayPrinter.to_string
QVarLengthArrayPrinter_to_string(v) == IF v.s = 0 THEN Empty ELSE PyNone

QVarLengthArrayValues ==
    { [printer |-> "QVarLengthArray", s |-> n, ptr |-> b] : n \in 0..MaxArrayLen, b \in Buffers }

\* QVectorPrinter.children
QVectorPrinter_children(v) ==
    IF v.size = 0 THEN [cls |-> "list"] ELSE ArrayIter_init(v.data, v.size)

\* QVectorPrinter.to_string
QVectorPrinter_to_string(v) == IF v.size = 0 THEN Empty ELSE PyNone

\* A buffer with a header: size, and data, the elements at the header's
\* address plus offset.
SharedBuffers(printer) ==
    { [printer |-> printer, size |-> n, data |-> b] : n \in 0..MaxArrayLen, b \in Buffers }

QVectorValues == SharedBuffers("QVector")

\* QByteArrayPrinter.children
QByteArrayPrinter_children(v) == ArrayIter_init(v.data, v.size)

\* QByteArrayPrinter.to_string: data.string('', 'replace', size)
QByteArrayPrinter_to_string(v) == SubSeq(v.data, 1, v.size)

QByteArrayValues == SharedBuffers("QByteArray")

QStringValues == SharedBuffers("QString")

\* QListPrinter.to_string
QListPrinter_to_string(v) == IF v.begin = v.end THEN Empty ELSE PyNone

(***************************************************************************)
(* A StructReader used on its own: a structure at some address, read by a  *)
(* sequence of next_val and next_aligned_val calls.                         *)
(***************************************************************************)
MaxReads == 2

\* sizes of the types read
TypeSizes == {1, 2, 4, 8, 16}

StructAddresses == 4094..4105

StructReaderValues ==
    { [printer |-> "StructReader", d |-> a, ptrSize |-> ps] :
         a \in StructAddresses, ps \in PtrSizes }

\* What one read did: the cursor before it, the address read, the size of
\* the type and the cursor after it.
Read(kind, from, sizeof, r) ==
    [kind |-> kind, from |-> from, at |-> r.at, sizeof |-> sizeof, after |-> r.reader.data]

(***************************************************************************)
(* QBitArrayPrinter: d.size bytes at data, the first of which counts the   *)
(* unused bits of the last one.                                             *)
(***************************************************************************)
MaxBits == 2

\* QBitArrayPrinter.Iter.__init__
QBitArrayIter_init(data, size) ==
    [cls |-> "QBitArrayIter", data |-> data, i |-> -1, size |-> size]

\* data[1 + (i >> 3)] & (1 << (i & 7))
BitOf(data, i) == (data[2 + (i \div 8)] \div (2 ^ (i % 8))) % 2

\* QBitArrayPrinter.Iter.__next__; data[k] of the code is data[k + 1] here
QBitArrayIter_next(it) ==
    IF it.i + 1 >= it.size
    THEN [it |-> it, res |-> "StopIteration", item |-> NoItem]
    ELSE [it |-> [it EXCEPT !.i = it.i + 1],
          res |-> "item",
          item |-> Item("", it.i + 1, it.i + 1,
                        IF BitOf(it.data, it.i + 1) # 0 THEN "1" ELSE "0")]

\* size = (int(d['size']) << 3) - int(data[0])
QBitArray_size(v) == v.size * 8 - v.data[1]

\* QBitArrayPrinter.children
QBitArrayPrinter_children(v) == QBitArrayIter_init(v.data, QBitArray_size(v))

\* QBitArrayPrinter.to_string
QBitArrayPrinter_to_string(v) == IF QBitArray_size(v) = 0 THEN Empty ELSE PyNone

\* The array of n bits held in one byte of bits; the empty array has no
\* byte and data points at a terminating zero.
QBitArrayValues ==
    { [printer |-> "QBitArray", size |-> 0, data |-> <<0>>] }
    \cup
    UNION { { [printer |-> "QBitArray", size |-> 2, data |-> <<16 - n, bits>>] :
                 bits \in 0..(2 ^ n - 1) } : n \in 1..MaxBits }

(***************************************************************************)
(* The state machine.                                                       *)
(***************************************************************************)
Values ==
    QMapValues \cup QHashValues \cup QSetValues \cup QLinkedListValues \cup QListValues
    \cup QDateValues \cup QTimeValues \cup QDateTimeValues \cup QUrlValues
    \cup QVariantValues \cup QVarLengthArrayValues \cup QVectorValues
    \cup QByteArrayValues \cup QStringValues \cup StructReaderValues
    \cup QBitArrayValues

Init ==
    /\ reg = DefaultRegistries
    /\ val \in Values
    /\ iter = NoIter
    /\ out = <<>>
    /\ text = NoText
    /\ res = "none"
    /\ ended = 0

\* What one request for the next child does to the decoder's state.
Request(r) ==
    /\ iter' = r.it
    /\ res' = r.res
    /\ out' = IF r.res = "item" THEN Append(out, r.item) ELSE out
    /\ ended' = IF r.res = "item" THEN ended ELSE ended + 1
    /\ UNCHANGED <<reg, val, text>>

CanRequest == ended <= MaxAfterEnd

\* iterating the empty list that children() returns for an empty container
ListNext ==
    /\ iter.cls = "list"
    /\ CanRequest
    /\ Request([it |-> iter, res |-> "StopIteration", item |-> NoItem])

\* A printer's children(): builds the child iterator.
Children(printer, it) ==
    /\ val.printer = printer
    /\ iter = NoIter
    /\ iter' = it
    /\ UNCHANGED <<reg, val, out, text, res, ended>>

QMapChildren == Children("QMap", QMapPrinter_children(val))

QMapNext ==
    /\ iter.cls = "QMapIter"
    /\ CanRequest
    /\ Request(QMapIter_next(val, iter))

QHashChildren == Children("QHash", QHashPrinter_children(val))

QHashNext ==
    /\ iter.cls = "QHashIter"
    /\ CanRequest
    /\ Request(QHashIter_next(val, iter))

QSetChildren == Children("QSet", QSetPrinter_children(val))

QSetNext ==
    /\ iter.cls = "islice"
    /\ CanRequest
    /\ Request(islice_next(val, iter))

QLinkedListChildren == Children("QLinkedList", QLinkedListPrinter_children(val))

QLinkedListNext ==
    /\ iter.cls = "QLinkedListIter"
    /\ CanRequest
    /\ Request(QLinkedListIter_next(val, iter))

\* The user adds a name to one of the sets of typeinfo, before any decoding.
\* The QList and QVariant printers read the registries.
RegistrableNames == {<<"MyType">>, <<"MyTemplate">>, <<"QChar">>, <<"int">>}

\* the entries added to the registries, as <<set, name>> pairs
Registered ==
    {e \in RegistryNames \X RegistrableNames : e[2] \in reg[e[1]] \ DefaultRegistries[e[1]]}

RegisterType ==
    /\ val.printer \in {"QList", "QVariant"}
    /\ iter = NoIter /\ res = "none" /\ text = NoText
    /\ Cardinality(Registered) < MaxRegistrations
    /\ \E s \in RegistryNames, n \in RegistrableNames :
          /\ n \notin reg[s]
          /\ reg' = [reg EXCEPT ![s] = reg[s] \cup {n}]
    /\ UNCHANGED <<val, iter, out, text, res, ended>>

\* QListPrinter.children: an exception of Iter.__init__ ends the decode.
QListChildren ==
    /\ val.printer = "QList"
    /\ iter = NoIter
    /\ iter' = QListPrinter_children(reg, val)
    /\ res' = IF iter'.cls = "raised" THEN iter'.exc ELSE res
    /\ ended' = IF iter'.cls = "raised" THEN ended + 1 ELSE ended
    /\ UNCHANGED <<reg, val, out, text>>

QListNext ==
    /\ iter.cls = "QListIter"
    /\ CanRequest
    /\ Request(QListIter_next(val, iter))

\* A printer's to_string(): renders the text.
Render(printer, t) ==
    /\ val.printer = printer
    /\ text = NoText
    /\ text' = t
    /\ UNCHANGED <<reg, val, iter, out, res, ended>>

QDateToString == Render("QDate", QDatePrinter_to_string(val))

QTimeToString == Render("QTime", QTimePrinter_to_string(val))

QDateTimeToString == Render("QDateTime", QDateTimePrinter_to_string(val))

QUrlToString == Render("QUrl", QUrlPrinter_to_string(val))

QVariantToString == Render("QVariant", QVariantPrinter_to_string(reg, val).text)

QVarLengthArrayChildren == Children("QVarLengthArray", QVarLengthArrayPrinter_children(val))

QVarLengthArrayToString == Render("QVarLengthArray", QVarLengthArrayPrinter_to_string(val))

QVectorChildren == Children("QVector", QVectorPrinter_children(val))

QVectorToString == Render("QVector", QVectorPrinter_to_string(val))

QByteArrayChildren == Children("QByteArray", QByteArrayPrinter_children(val))

QByteArrayToString == Render("QByteArray", QByteArrayPrinter_to_string(val))

QStringToString == Render("QString", QStringPrinter_to_string(val))

QListToString == Render("QList", QListPrinter_to_string(val))

\* StructReader(d)
StructReaderInit ==
    Children("StructReader", [cls |-> "StructReader"] @@ StructReader(val.d))

StructReaderNextVal ==
    /\ iter.cls = "StructReader"
    /\ Len(out) < MaxReads
    /\ \E sizeof \in TypeSizes :
          LET r == StructReader_next_val(iter, sizeof)
          IN /\ iter' = [cls |-> "StructReader"] @@ r.reader
             /\ out' = Append(out, Read("next_val", iter.data, sizeof, r))
    /\ UNCHANGED <<reg, val, text, res, ended>>

StructReaderNextAlignedVal ==
    /\ iter.cls = "StructReader"
    /\ Len(out) < MaxReads
    /\ \E sizeof \in TypeSizes :
          LET r == StructReader_next_aligned_val(iter, sizeof, val.ptrSize)
          IN /\ iter' = [cls |-> "StructReader"] @@ r.reader
             /\ out' = Append(out, Read("next_aligned_val", iter.data, sizeof, r))
    /\ UNCHANGED <<reg, val, text, res, ended>>

QBitArrayChildren == Children("QBitArray", QBitArrayPrinter_children(val))

QBitArrayToString == Render("QBitArray", QBitArrayPrinter_to_string(val))

QBitArrayNext ==
    /\ iter.cls = "QBitArrayIter"
    /\ CanRequest
    /\ Request(QBitArrayIter_next(iter))

ArrayNext ==
    /\ iter.cls = "ArrayIter"
    /\ CanRequest
    /\ Request(ArrayIter_next(iter))

Next ==
    \/ QDateTimeToString
    \/ QUrlToString
    \/ QVariantToString
    \/ QVarLengthArrayChildren
    \/ QVarLengthArrayToString
    \/ QVectorChildren
    \/ QVectorToString
    \/ QByteArrayChildren
    \/ QByteArrayToString
    \/ QStringToString
    \/ QListToString
    \/ ArrayNext
    \/ QBitArrayChildren
    \/ QBitArrayToString
    \/ QBitArrayNext
    \/ StructReaderInit
    \/ StructReaderNextVal
    \/ StructReaderNextAlignedVal
    \/ QDateToString
    \/ QTimeToString
    \/ RegisterType
    \/ QListChildren
    \/ QListNext
    \/ ListNext
    \/ QMapChildren
    \/ QMapNext
    \/ QHashChildren
    \/ QHashNext
    \/ QSetChildren
    \/ QSetNext
    \/ QLinkedListChildren
    \/ QLinkedListNext

Spec == Init /\ [][Next]_vars

(***************************************************************************)
(* Reference definitions the claims are stated with.                       *)
(***************************************************************************)
IsPrefix(s, t) == Len(s) <= Len(t) /\ s = SubSeq(t, 1, Len(s))

\* The nodes of the subtree at address a in in-order: left, node, right.
RECURSIVE InOrder(_, _)
InOrder(v, a) ==
    IF a = NULL THEN <<>>
    ELSE InOrder(v, v.left[a]) \o <<a>> \o InOrder(v, v.right[a])

\* key0, value0, key1, value1, ... of a sequence of nodes.
KeyValueItems(nodes) ==
    [k \in 1..(2 * Len(nodes)) |->
        IF k % 2 = 1
        THEN Item("key", (k - 1) \div 2, nodes[(k + 1) \div 2], "key")
        ELSE Item("value", (k - 2) \div 2, nodes[k \div 2], "value")]

(***************************************************************************)
(* C1: for every finite binary tree under header.left, the QMap child      *)
(* iterator yields key0, value0, key1, value1, ... of the nodes in         *)
(* in-order, each node once, each key followed by the value of the same    *)
(* node, and then signals the end.                                          *)
(***************************************************************************)
C1_MapInOrder ==
    (val.printer = "QMap" /\ iter.cls = "QMapIter") =>
        LET expected == KeyValueItems(InOrder(val, val.left[MapHeader]))
        IN /\ ended = 0 => res \in {"none", "item"} /\ IsPrefix(out, expected)
           /\ ended = 1 => res = "StopIteration"
           /\ ended >= 1 => out = expected

C1_Witness ==
    /\ val.printer = "QMap" /\ iter.cls = "QMapIter"
    /\ val.n = MaxNodes
    /\ \E a \in 1..val.n : val.left[a] # NULL /\ val.right[a] # NULL
    /\ \E a \in 1..val.n : val.left[a] = NULL /\ val.right[a] # NULL
    /\ ended = 1 /\ res = "StopIteration" /\ Len(out) = 2 * val.n

(***************************************************************************)
(* C2: the linked-list iterator made with trusted count n follows the n    *)
(* link once per yielded item (item k is the k-th successor of the         *)
(* sentinel), yields exactly n items when the n links are readable, and    *)
(* never makes more than n advances, whatever the links are (a cycle, a    *)
(* chain shorter or longer than n).                                         *)
(***************************************************************************)
RECURSIVE Follow(_, _, _)
Follow(v, a, k) ==
    IF k = 0 \/ a = NULL THEN a ELSE Follow(v, v.n[a], k - 1)

LinksReadable(v) == \A k \in 1..v.size : Follow(v, ListSentinel, k) # NULL

C2_ListTrustedCount ==
    (val.printer = "QLinkedList" /\ iter.cls = "QLinkedListIter") =>
        /\ iter.i + 1 <= val.size
        /\ Len(out) <= iter.i + 1
        /\ \A k \in 1..Len(out) :
              out[k] = Item("", k - 1, Follow(val, ListSentinel, k), "t")
        /\ ended = 0 => Len(out) = iter.i + 1
        /\ LinksReadable(val) =>
              /\ res \in {"none", "item", "StopIteration"}
              /\ ended >= 1 => Len(out) = val.size

C2_Witness ==
    /\ val.printer = "QLinkedList" /\ iter.cls = "QLinkedListIter"
    /\ val.n[ListSentinel] = 1 /\ val.n[1] = ListSentinel
    /\ val.size = MaxSize
    /\ ended = 1 /\ res = "StopIteration" /\ Len(out) = val.size

(***************************************************************************)
(* C3: the hash decoder and the tree decoder stop once the trusted element *)
(* count (the header's size) of pairs has been yielded: size keys and size *)
(* values, whatever number of nodes the structure holds, with no failure.  *)
(***************************************************************************)
LabelCount(items, label) ==
    Cardinality({k \in 1..Len(items) : items[k].label = label})

C3_TrustedCountStops ==
    (val.printer \in {"QHash", "QMap"} /\ iter # NoIter) =>
        /\ LabelCount(out, "key") <= val.size
        /\ LabelCount(out, "value") <= val.size
        /\ ended = 1 =>
              /\ res = "StopIteration"
              /\ LabelCount(out, "key") = val.size
              /\ LabelCount(out, "value") = val.size

(***************************************************************************)
(* C4: the set decoder yields exactly the key items (the first of each     *)
(* pair) that the hash decoder yields for the backing table, in the same   *)
(* order, no value item and no key left out; nothing for an empty table.   *)
(***************************************************************************)
\* All the children of the hash decoder, in order.
RECURSIVE Drain(_, _)
Drain(v, it) ==
    LET r == HashChildNext(v, it)
    IN IF r.res = "item" THEN <<r.item>> \o Drain(v, r.it) ELSE <<>>

HashChildren(v) == Drain(v, QHashPrinter_children(v))

FirstOfPairs(items) == [k \in 1..((Len(items) + 1) \div 2) |-> items[2 * k - 1]]

C4_SetYieldsKeys ==
    (val.printer = "QSet" /\ iter.cls = "islice") =>
        LET all == HashChildren(val)
            keys == FirstOfPairs(all)
        IN /\ \A k \in 1..Len(out) : out[k].label = "key"
           /\ Len(keys) = LabelCount(all, "key")
           /\ ended = 0 => res \in {"none", "item"} /\ IsPrefix(out, keys)
           /\ ended >= 1 => res = "StopIteration" /\ out = keys
           /\ (val.size = 0 \/ val.n = 0) => out = <<>>

C4_Witness ==
    /\ val.printer = "QSet" /\ iter.cls = "islice"
    /\ val.numBuckets = MaxBuckets /\ val.buckets[1] = HashDummy
    /\ val.n >= 3
    /\ ended = 1 /\ res = "StopIteration"
    /\ Len(out) = val.n /\ out[val.n] = Item("key", val.n - 1, val.n, "key")

(***************************************************************************)
(* C5 (as stated): in the QList decoder, for every element type and every  *)
(* content of the registries, a type registered movable or primitive by    *)
(* kind, of size <= pointer size, is decoded inline (is_pointer false),    *)
(* and a type larger than a pointer is decoded by indirection.             *)
(***************************************************************************)
IsSubSeq(s, t) ==
    \E k \in 0..(Len(t) - Len(s)) : SubSeq(t, k + 1, k + Len(s)) = s

QListIterBuilt == val.printer = "QList" /\ iter # NoIter /\ val.begin # val.end

MovableOrPrimitiveKind(el) ==
    type_is_known_movable(reg, el).ret \/ el.code \in PrimitiveCodes

C5_SizeRuleAsStated ==
    QListIterBuilt =>
        LET el == QListIter_el_type(val)
        IN /\ (el.sizeof <= val.ptrSize /\ MovableOrPrimitiveKind(el)) =>
                 iter.cls = "QListIter" /\ ~iter.is_pointer
           /\ el.sizeof > val.ptrSize =>
                 iter.cls = "QListIter" /\ iter.is_pointer

(***************************************************************************)
(* C5 (amended): the same, for a type that is not also registered static:  *)
(* the static test comes before the movable and primitive tests, so a type *)
(* registered static is decoded by indirection whatever else it is.        *)
(***************************************************************************)
C5_SizeRule ==
    QListIterBuilt =>
        LET el == QListIter_el_type(val)
        IN /\ (el.sizeof <= val.ptrSize /\ MovableOrPrimitiveKind(el)
                 /\ ~type_is_known_static(reg, el).ret) =>
                 iter.cls = "QListIter" /\ ~iter.is_pointer
           /\ (el.sizeof <= val.ptrSize /\ type_is_known_static(reg, el).ret) =>
                 iter.cls = "QListIter" /\ iter.is_pointer
           /\ el.sizeof > val.ptrSize =>
                 iter.cls = "QListIter" /\ iter.is_pointer

C5_Witness ==
    /\ QListIterBuilt
    /\ QListIter_el_type(val) = QStringType(val.ptrSize)
    /\ val.type.name # <<"QStringList">>
    /\ <<"MyType">> \in reg.static_types
    /\ iter.cls = "QListIter" /\ ~iter.is_pointer

(***************************************************************************)
(* C6: when the element type has size <= pointer size and is neither       *)
(* registered static, nor registered movable, nor primitive (by registry   *)
(* or by kind), building the child iterator fails with the explicit error  *)
(* that names the element type, and nothing is yielded.                    *)
(***************************************************************************)
Unclassified(el) ==
    /\ ~type_is_known_static(reg, el).ret
    /\ ~type_is_known_movable(reg, el).ret
    /\ el.code \notin PrimitiveCodes
    /\ el.name = NoName
         \/ ~InRegistry(el.name, reg.primitive_types, reg.primitive_tpl_types)

C6_ExplicitError ==
    QListIterBuilt =>
        LET el == QListIter_el_type(val)
        IN (el.sizeof <= val.ptrSize /\ Unclassified(el)) =>
              /\ iter.cls = "raised" /\ iter.exc = "ValueError"
              /\ res = "ValueError"
              /\ el.name # NoName /\ IsSubSeq(el.name, iter.msg)
              /\ out = <<>>

(***************************************************************************)
(* Reading a rendered text back.                                            *)
(***************************************************************************)
IsDigit(tok) == \E d \in 1..10 : DigitTokens[d] = tok
DigitValue(tok) == (CHOOSE d \in 1..10 : DigitTokens[d] = tok) - 1

AllDigits(s) == Len(s) > 0 /\ \A k \in 1..Len(s) : IsDigit(s[k])

RECURSIVE ParseNat(_)
ParseNat(s) ==
    IF Len(s) = 0 THEN 0 ELSE 10 * ParseNat(Front(s)) + DigitValue(Last(s))

\* a number of any length, with or without a sign, as a big integer
ParseBig(s) ==
    LET neg == Len(s) > 0 /\ s[1] = "-"
        ds == IF neg THEN Tail(s) ELSE s
        n == IF Len(ds) <= 4 THEN BigOf(ParseNat(ds))
             ELSE <<ParseNat(SubSeq(ds, 1, Len(ds) - 4)),
                    ParseNat(SubSeq(ds, Len(ds) - 3, Len(ds)))>>
    IN IF neg THEN BigNeg(n) ELSE n

\* Y...Y-MM-DD, the year of four characters or more, its sign included
IsDateText(t) ==
    /\ Len(t) >= 10
    /\ t[Len(t) - 2] = "-" /\ t[Len(t) - 5] = "-"
    /\ AllDigits(SubSeq(t, Len(t) - 1, Len(t)))
    /\ AllDigits(SubSeq(t, Len(t) - 4, Len(t) - 3))
    /\ LET y == SubSeq(t, 1, Len(t) - 6)
       IN AllDigits(IF y[1] = "-" THEN Tail(y) ELSE y)

ParseDate(t) ==
    [year  |-> ParseBig(SubSeq(t, 1, Len(t) - 6)),
     month |-> ParseNat(SubSeq(t, Len(t) - 4, Len(t) - 3)),
     day   |-> ParseNat(SubSeq(t, Len(t) - 1, Len(t)))]

\* HH:MM:SS.mmm
IsTimeText(t) ==
    /\ Len(t) = 12
    /\ t[3] = ":" /\ t[6] = ":" /\ t[9] = "."
    /\ \A k \in {1, 2, 4, 5, 7, 8, 10, 11, 12} : IsDigit(t[k])

ParseTime(t) ==
    [hours |-> ParseNat(SubSeq(t, 1, 2)), mins |-> ParseNat(SubSeq(t, 4, 5)),
     secs |-> ParseNat(SubSeq(t, 7, 8)), msecs |-> ParseNat(SubSeq(t, 10, 12))]

(***************************************************************************)
(* C7: for every Gregorian date whose day-count is in the supported range, *)
(* encoding it and decoding the day-count gives back the year, the month   *)
(* and the day; day-count 2440588 decodes to 1970-01-01.                    *)
(***************************************************************************)
C7_DateRoundTrip ==
    (val.printer = "QDate" /\ text # NoText) =>
        /\ val.date # NoDate =>
              /\ text # Invalid
              /\ _format_jd_fields(val.jd) = val.date
              /\ IsDateText(text) /\ ParseDate(text) = val.date
        /\ val.jd = BigOf(2440588) =>
              text = <<"1", "9", "7", "0", "-", "0", "1", "-", "0", "1">>

C7_Witness ==
    /\ val.printer = "QDate" /\ text # NoText
    /\ val.date = [year |-> BigOf(-4800), month |-> 2, day |-> 29]
    /\ text = <<"-", "4", "8", "0", "0", "-", "0", "2", "-", "2", "9">>

(***************************************************************************)
(* C8: the date decoder renders '<invalid>' exactly when the day-count is  *)
(* outside [-784350574879, 784354017364], the time decoder exactly when    *)
(* msecs < 0 or msecs > 86400000; a value in range is rendered as a date   *)
(* or a time.                                                               *)
(***************************************************************************)
C8_InvalidSentinel ==
    /\ (val.printer = "QDate" /\ text # NoText) =>
          LET inRange == /\ BigLeq(BigNeg(Dec3(7843, 5057, 4879)), val.jd)
                         /\ BigLeq(val.jd, Dec3(7843, 5401, 7364))
          IN /\ text = Invalid <=> ~inRange
             /\ inRange => IsDateText(text)
    /\ (val.printer = "QTime" /\ text # NoText) =>
          LET inRange == val.mds >= 0 /\ val.mds <= 86400000
          IN /\ text = Invalid <=> ~inRange
             /\ inRange => IsTimeText(text)

C8_Witness ==
    /\ val.printer = "QDate"
    /\ val.jd = BigAdd(Dec3(7843, 5401, 7364), BigOf(1))
    /\ text = Invalid

(***************************************************************************)
(* C9: for msecs in [0, 86400000) the time decoder writes HH:MM:SS.mmm     *)
(* with HH in 0..23, MM and SS in 0..59, mmm in 0..999 and                 *)
(* HH*3600000 + MM*60000 + SS*1000 + mmm = msecs; 3661000 gives            *)
(* 01:01:01.000; 86400000 is valid and is not rendered as the sentinel.    *)
(***************************************************************************)
C9_TimeFields ==
    (val.printer = "QTime" /\ text # NoText) =>
        /\ (val.mds >= 0 /\ val.mds < 86400000) =>
              /\ IsTimeText(text)
              /\ LET t == ParseTime(text)
                 IN /\ t.hours \in 0..23 /\ t.mins \in 0..59
                    /\ t.secs \in 0..59 /\ t.msecs \in 0..999
                    /\ t.hours * 3600000 + t.mins * 60000 + t.secs * 1000 + t.msecs
                         = val.mds
        /\ val.mds = 3661000 =>
              text = <<"0", "1", ":", "0", "1", ":", "0", "1", ".", "0", "0", "0">>
        /\ val.mds = 86400000 => text # Invalid /\ IsTimeText(text)

C9_Witness ==
    /\ val.printer = "QTime"
    /\ val.mds = 23 * 3600000 + 59 * 60000 + 59 * 1000 + 999
    /\ text = <<"2", "3", ":", "5", "9", ":", "5", "9", ".", "9", "9", "9">>

(***************************************************************************)
(* C10: for a valid date-time with a fixed offset o from UTC the suffix is *)
(* (UTC) when o = 0 and otherwise (UTC, the sign of o, HH = |o| div 3600   *)
(* and MM = (|o| mod 3600) div 60 in two digits, :SS with SS = |o| mod 60  *)
(* when SS is not 0, and ), for every positive and every negative o.       *)
(***************************************************************************)
OffsetSuffix(o) ==
    LET a == IF o < 0 THEN 0 - o ELSE o
        hhmm == <<IF o > 0 THEN "+" ELSE "-">> \o Format(a \div 3600, 2) \o <<":">>
                \o Format((a % 3600) \div 60, 2)
        ss == IF a % 60 # 0 THEN <<":">> \o Format(a % 60, 2) ELSE <<>>
    IN IF o = 0 THEN <<" ", "(", "UTC", ")">>
       ELSE <<" ", "(", "UTC">> \o hhmm \o ss \o <<")">>

EndsWith(t, s) == Len(t) >= Len(s) /\ SubSeq(t, Len(t) - Len(s) + 1, Len(t)) = s

C10_OffsetSuffix ==
    (val.printer = "QDateTime" /\ text # NoText /\ text # Invalid
       /\ val.spec = _offsetFromUTC) =>
        EndsWith(text, OffsetSuffix(val.m_offsetFromUtc))

(***************************************************************************)
(* C11: the text QUrlPrinter renders does not depend on the content of the *)
(* password field: the value with any other password in its memory, all    *)
(* other fields and the sections and flags bytes unchanged, renders the    *)
(* same text, on the general path and on the local-file path; no character *)
(* of the password is in the text.                                          *)
(***************************************************************************)
PasswordAddress(v) == UrlAddress + 8 + 2 * v.ptrSize

WithPassword(v, p) == [v EXCEPT !.mem[PasswordAddress(v)] = p]

Tokens(t) == {t[k] : k \in 1..Len(t)}

C11_PasswordRedacted ==
    (val.printer = "QUrl" /\ text # NoText /\ val.d # NULL) =>
        /\ val.mem[PasswordAddress(val)] \in Passwords
        /\ \A p \in Passwords : QUrlPrinter_to_string(WithPassword(val, p)) = text
        /\ \A p \in Passwords : Tokens(p.data) \cap Tokens(text) = {}

\* a value with a password, the password bit set, rendered on the general path
C11_Witness ==
    /\ val.printer = "QUrl" /\ text # NoText /\ val.d # NULL
    /\ val.mem[PasswordAddress(val)] = QString(<<"hunter2">>)
    /\ text = <<"http", ":", "//", "alice", ":<omitted>", "@", "example.org",
                ":", "8", "0", "8", "0", "/index", "?", "q=1", "#", "top">>

(***************************************************************************)
(* C12 as stated: scheme (0x01), user name (0x02), password marker (0x04), *)
(* host (0x08), port (0x10), query (0x40) and fragment (0x80) are each in  *)
(* the text QUrlPrinter renders exactly when the field's bit of the        *)
(* sections byte is set.                                                    *)
(***************************************************************************)
UrlRendered == val.printer = "QUrl" /\ text # NoText /\ val.d # NULL

Shows(field) == Tokens(QStringPrinter_to_string(field)) \subseteq Tokens(text)

ShowsPort == \E k \in 1..Len(text) : IsDigit(text[k])

ShowsMarker == ":<omitted>" \in Tokens(text)

C12_BitPerField ==
    UrlRendered =>
        LET f == QUrlPrinter_read(val)
        IN /\ Shows(f.scheme) <=> Bits(f.sections, 1)
           /\ Shows(f.userName) <=> Bits(f.sections, 2)
           /\ ShowsMarker <=> Bits(f.sections, 4)
           /\ Shows(f.host) <=> Bits(f.sections, 8)
           /\ ShowsPort <=> Bits(f.sections, 16)
           /\ Shows(f.query) <=> Bits(f.sections, 64)
           /\ Shows(f.fragment) <=> Bits(f.sections, 128)

(***************************************************************************)
(* C12: a value flagged local file with neither the query nor the fragment *)
(* bit renders as its path alone.  Every other value renders the scheme    *)
(* exactly when bit 0x01 is set, the user name exactly when bit 0x02 or    *)
(* bit 0x04 is set, the marker ':<omitted>' exactly when bit 0x04 is set,  *)
(* the host exactly when bit 0x08 is set, the port exactly when the port   *)
(* field is not -1 (bit 0x10 does not decide it), the query exactly when   *)
(* bit 0x40 is set and the fragment exactly when bit 0x80 is set.          *)
(***************************************************************************)
LocalFilePath(f) == Bits(f.flags, 1) /\ ~Bits(f.sections, 64) /\ ~Bits(f.sections, 128)

C12_FieldsGated ==
    UrlRendered =>
        LET f == QUrlPrinter_read(val)
        IN IF LocalFilePath(f)
           THEN text = QStringPrinter_to_string(f.path)
           ELSE /\ Shows(f.scheme) <=> Bits(f.sections, 1)
                /\ Shows(f.userName) <=> (Bits(f.sections, 2) \/ Bits(f.sections, 4))
                /\ ShowsMarker <=> Bits(f.sections, 4)
                /\ Shows(f.host) <=> Bits(f.sections, 8)
                /\ ShowsPort <=> f.port # -1
                /\ Shows(f.query) <=> Bits(f.sections, 64)
                /\ Shows(f.fragment) <=> Bits(f.sections, 128)

\* password and port bits set, no user-name bit, port field -1
C12_Witness ==
    /\ UrlRendered
    /\ QUrlPrinter_read(val).sections = 4 + 16
    /\ QUrlPrinter_read(val).port = -1
    /\ text = <<"//", "alice", ":<omitted>", "@", "/index">>

(***************************************************************************)
(* C13: QVariantPrinter renders type 0 as '<invalid type>'; for every type *)
(* id that is not a key of meta_type_names (every id >= 1024 and every     *)
(* unassigned id below 1024) it returns the payload d.data itself, looks   *)
(* up no type and raises nothing.                                           *)
(***************************************************************************)
VariantRendered == val.printer = "QVariant" /\ text # NoText

AssignedIds == {meta_type_names_items[k][1] : k \in 1..Len(meta_type_names_items)}

C13_UnknownTag ==
    VariantRendered =>
        /\ val.d_type = 0 => text = <<"<invalid type>">>
        /\ (val.d_type # 0 /\ val.d_type \notin AssignedIds) =>
              /\ text = <<"data">>
              /\ QVariantPrinter_to_string(reg, val).looked = <<>>
        /\ val.d_type >= meta_type_user => val.d_type \notin AssignedIds
        /\ text # <<>> /\ text # <<"KeyError">>

\* an unassigned id below 1024, rendered as the payload
C13_Witness ==
    /\ VariantRendered
    /\ val.d_type = 87
    /\ text = <<"data">>

(***************************************************************************)
(* C14: for a QVariant whose type id is a key of meta_type_names and not a *)
(* fixed-field scalar: when the type cannot be resolved, d.data is         *)
(* returned; else when the type is larger than d.data, the value is read   *)
(* through data.shared.ptr; else when the type is registered movable or    *)
(* primitive, or is an enumeration, it is read inline at data.c; else      *)
(* data.o is cast to the type.                                              *)
(***************************************************************************)
ReadShared(t) == <<"*", "(">> \o TypeText(t) \o <<"*", ")", "data.shared.ptr">>

ReadInline(t) == <<"*", "(">> \o TypeText(t) \o <<"*", ")", "&", "data.c">>

CastHandle(t) == <<"(">> \o TypeText(t) \o <<")", "data.o">>

SequencePrinters == {"QVarLengthArray", "QList", "QVector", "QByteArray", "QString"}

\* the number of elements of the value
ElementCount(v) ==
    IF v.printer = "QVarLengthArray" THEN v.s
    ELSE IF v.printer = "QList" THEN v.end - v.begin
    ELSE v.size

\* the children were requested until the end of the sequence
Decoded == res = "StopIteration" /\ ended = 1

C15_EmptyTextAllSequences ==
    (val.printer \in SequencePrinters /\ text # NoText) =>
        /\ ElementCount(val) = 0 => text = Empty
        /\ ElementCount(val) >= 1 => text = PyNone

(***************************************************************************)
(* C15: QVarLengthArray, QList and QVector render '<empty>' exactly when   *)
(* the sequence has no element, and give no text when it has at least one; *)
(* the children they yield are as many as the elements.  QByteArray and    *)
(* QString render the text of their elements whatever their number: the    *)
(* empty text for none, never '<empty>'.                                    *)
(***************************************************************************)
C15_EmptyText ==
    /\ (val.printer \in {"QVarLengthArray", "QList", "QVector"} /\ text # NoText) =>
          /\ text = Empty <=> ElementCount(val) = 0
          /\ ElementCount(val) >= 1 => text = PyNone
    /\ (val.printer \in {"QVarLengthArray", "QList", "QVector", "QByteArray"} /\ Decoded) =>
          Len(out) = ElementCount(val)
    /\ (val.printer \in {"QByteArray", "QString"} /\ text # NoText) =>
          /\ Len(text) = ElementCount(val)
          /\ text = [k \in 1..ElementCount(val) |-> val.data[k]]
          /\ text # Empty /\ text # PyNone

\* an empty QVarLengthArray: no child and the text '<empty>'
C15_Witness ==
    /\ val.printer = "QVarLengthArray" /\ val.s = 0
    /\ Decoded /\ out = <<>>
    /\ text = Empty

(***************************************************************************)
(* C16: StructReader.next_val of a type of size s reads at the cursor c    *)
(* and leaves the cursor at c + s; next_aligned_val reads at the smallest  *)
(* address c' >= c divisible by the size of a pointer (c' = c when c is    *)
(* aligned, c' - c < pointer size) and leaves the cursor at c' + s; every  *)
(* read starts where the one before it ended, and the cursor never moves   *)
(* backward.                                                                *)
(***************************************************************************)
AlignedUp(c, ptrSize) ==
    CHOOSE a \in c..(c + ptrSize) :
        a % ptrSize = 0 /\ \A b \in c..(a - 1) : b % ptrSize # 0

C16_CursorArithmetic ==
    (val.printer = "StructReader" /\ iter # NoIter) =>
        /\ \A k \in 1..Len(out) :
              LET r == out[k]
              IN /\ r.from = IF k = 1 THEN val.d ELSE out[k - 1].after
                 /\ r.kind = "next_val" => r.at = r.from
                 /\ r.kind = "next_aligned_val" =>
                       /\ r.at = AlignedUp(r.from, val.ptrSize)
                       /\ r.at >= r.from /\ r.at - r.from < val.ptrSize
                       /\ r.from % val.ptrSize = 0 => r.at = r.from
                 /\ r.after = r.at + r.sizeof
                 /\ r.after >= r.from
        /\ iter.data = IF out = <<>> THEN val.d ELSE out[Len(out)].after

\* an aligned read at a misaligned cursor after a plain read
C16_Witness ==
    /\ val.printer = "StructReader" /\ val.ptrSize = 8 /\ val.d = 4096
    /\ Len(out) = 2
    /\ out[1] = [kind |-> "next_val", from |-> 4096, at |-> 4096, sizeof |-> 4, after |-> 4100]
    /\ out[2] = [kind |-> "next_aligned_val", from |-> 4100, at |-> 4104, sizeof |-> 8,
                 after |-> 4112]

(***************************************************************************)
(* C17: for every element type and every content of the registries, the    *)
(* three tests of typeinfo return without an exception and exactly one of  *)
(* them holds; a type of pointer, integer, floating-point, character or    *)
(* boolean kind is primitive, and a composite type whose name is in none   *)
(* of the registries is static.                                             *)
(***************************************************************************)
BoolToNat(b) == IF b THEN 1 ELSE 0

InNoRegistry(r, t) ==
    /\ t.name # NoName
    /\ ~InRegistry(t.name, r.primitive_types, r.primitive_tpl_types)
    /\ ~InRegistry(t.name, r.movable_types, r.movable_tpl_types)
    /\ ~InRegistry(t.name, r.static_types, r.static_tpl_types)

C17_ExactlyOneClass ==
    (val.printer = "QList" /\ val.type.name # <<"QStringList">>) =>
        LET t == val.type.template_argument
            p == type_is_known_primitive(reg, t)
            m == type_is_known_movable(reg, t)
            s == type_is_known_static(reg, t)
        IN /\ p.exc = "" /\ m.exc = "" /\ s.exc = ""
           /\ BoolToNat(p.ret) + BoolToNat(m.ret) + BoolToNat(s.ret) = 1
           /\ t.code \in PrimitiveCodes => p.ret
           /\ (t.code \notin PrimitiveCodes /\ InNoRegistry(reg, t)) => s.ret

(***************************************************************************)
(* C18: QDateTimePrinter renders '<invalid>' exactly when the private data *)
(* pointer is null; or the spec is TimeZone and the zone's name is empty;  *)
(* or the spec is LocalTime, or TimeZone with the zone-cached bit (0x20)   *)
(* clear, and the valid-date (0x04) and valid-time (0x08) bits are not     *)
(* both set; or, for every other spec and status, the valid-date-time bit  *)
(* (0x10) is clear.                                                         *)
(***************************************************************************)
StatusBit(status, k) == (status \div k) % 2 = 1

ZoneName(tz) == IF tz.d = NULL THEN <<>> ELSE tz.id

LegacyPairCase(v) == v.spec = 0 \/ (v.spec = 3 /\ ~StatusBit(v.status, 32))

C18_InvalidCases ==
    (val.printer = "QDateTime" /\ text # NoText) =>
        (text = Invalid <=>
            \/ val.d = NULL
            \/ val.spec = 3 /\ ZoneName(val.m_timeZone) = <<>>
            \/ LegacyPairCase(val) /\ ~(StatusBit(val.status, 4) /\ StatusBit(val.status, 8))
            \/ ~LegacyPairCase(val) /\ ~StatusBit(val.status, 16))

\* a named zone not yet cached, valid date and time bits set, combined bit clear
C18_Witness ==
    /\ val.printer = "QDateTime" /\ val.d # NULL
    /\ val.spec = 3 /\ val.status = 4 + 8
    /\ text = <<"1", "9", "7", "0", "-", "0", "1", "-", "0", "1", " ",
                "0", "0", ":", "0", "0", ":", "0", "0", ".", "0", "0", "0",
                " ", "(", "Europe/Oslo", ")">>

(***************************************************************************)
(* C19: for every m_msecs, negative, zero or positive, the day-count jd    *)
(* and the milliseconds of the day ms that QDateTimePrinter formats        *)
(* satisfy 0 <= ms < 86400000 and (jd - 2440588) * 86400000 + ms = m_msecs;*)
(* a time before the epoch falls on the earlier day.                        *)
(***************************************************************************)
DayCounts == (2440588 - 12)..(2440588 + 12)

\* the one day-count and time of day that add up to m
DayAndTime(m) ==
    CHOOSE s \in [jd : DayCounts, msecs : {m - (j - 2440588) * 86400000 : j \in DayCounts}] :
        /\ 0 <= s.msecs /\ s.msecs < 86400000
        /\ (s.jd - 2440588) * 86400000 + s.msecs = m

C19_EpochSplit ==
    (val.printer = "QDateTime" /\ text # NoText /\ text # Invalid) =>
        LET s == QDateTimePrinter_split(val.m_msecs)
            ref == DayAndTime(val.m_msecs)
        IN /\ 0 <= s.msecs /\ s.msecs < 86400000
           /\ (s.jd - 2440588) * 86400000 + s.msecs = val.m_msecs
           /\ s = ref
           /\ val.m_msecs < 0 => s.jd < 2440588
           /\ IsPrefix(_format_jd(BigOf(ref.jd)) \o <<" ">> \o _format_time_ms(ref.msecs), text)

\* one millisecond before the epoch
C19_Witness ==
    /\ val.printer = "QDateTime" /\ val.m_msecs = -1 /\ val.spec = 1
    /\ text = <<"1", "9", "6", "9", "-", "1", "2", "-", "3", "1", " ",
                "2", "3", ":", "5", "9", ":", "5", "9", ".", "9", "9", "9",
                " ", "(", "UTC", ")">>

(***************************************************************************)
(* C20: on a hash table whose chains end in the dummy node (next null) and *)
(* whose empty buckets point at it, the QHash child iterator starts one    *)
(* slot before the bucket array, goes through the buckets by ascending     *)
(* index and through each chain in order, yields for every stored node     *)
(* its key and then its value, once, never yields the dummy node, and      *)
(* signals the end only when all numBuckets buckets have been examined.    *)
(***************************************************************************)
\* the nodes of the chain from node a to the dummy node
RECURSIVE ChainNodes(_, _)
ChainNodes(v, a) ==
    IF v.next[a] = NULL THEN <<>> ELSE <<a>> \o ChainNodes(v, v.next[a])

\* the nodes of buckets 1..b, bucket after bucket
RECURSIVE TableNodes(_, _)
TableNodes(v, b) ==
    IF b = 0 THEN <<>> ELSE TableNodes(v, b - 1) \o ChainNodes(v, v.buckets[b])

C20_HashOrder ==
    (val.printer = "QHash" /\ iter.cls = "QHashIter") =>
        LET all == KeyValueItems(TableNodes(val, val.numBuckets))
        IN /\ IsPrefix(out, all)
           /\ res \in {"none", "item", "StopIteration"}
           /\ \A k \in 1..Len(out) : out[k].node # HashDummy
           /\ (res = "none" /\ out = <<>>) => iter.current_bucket = 0
           /\ iter.current_bucket + iter.buckets_left = val.numBuckets
           /\ res = "StopIteration" => (out = all /\ iter.buckets_left = 0)

\* three buckets, the middle one empty, iterated to the end
C20_Witness ==
    /\ val.printer = "QHash" /\ iter.cls = "QHashIter"
    /\ val.numBuckets = 3
    /\ val.buckets[2] = HashDummy /\ val.buckets[1] # HashDummy /\ val.buckets[3] # HashDummy
    /\ res = "StopIteration"
    /\ Len(out) = 2 * val.n /\ val.n >= 3

(***************************************************************************)
(* C21: once a request for the next child has signalled the end of the     *)
(* sequence, every later request on the same iterator (ArrayIter, the      *)
(* QBitArray, QLinkedList, QList, QHash and QMap iterators) signals the    *)
(* end again, yields no item and raises nothing else.                       *)
(***************************************************************************)
ChildIterators ==
    {"ArrayIter", "QBitArrayIter", "QLinkedListIter", "QListIter", "QHashIter", "QMapIter"}

C21_StableExhaustion ==
    [][(iter.cls \in ChildIterators /\ res = "StopIteration")
          => (res' = "StopIteration" /\ out' = out)]_vars

====
